---- MODULE Spec2Model ----
(***************************************************************************)
(* Model of wsl_dev_kit.py: the entry point main(), the control-side       *)
(* WindowsOrchestrator, the guest-side WSLOrchestrator, and the helpers    *)
(* they call (find_browser, kill_browser, cleanup_profile, launch_browser, *)
(* verify_chrome_listening, setup_portproxy, detect_wsl_host_ip,           *)
(* verify_connection, run_powershell_from_wsl).                            *)
(*                                                                         *)
(* Two invocations of the tool exist: "main", started by the user in some  *)
(* execution context, and "remote", the fresh invocation that a guest-side *)
(* run starts on the control host through powershell.exe.                  *)
(***************************************************************************)
EXTENDS Integers, Sequences, FiniteSets, TLC

(***************************************************************************)
(* Bounds of the model.                                                    *)
(***************************************************************************)
MaxRuns == 2        \* invocations of the tool by the user, one after another
MaxInstalls == 2    \* successive relay installs in the relay-only specification
MaxRetries == 3     \* largest max_retries argument of the wait-only specification

(***************************************************************************)
(* Program constants.                                                      *)
(***************************************************************************)
max_retries == 10   \* verify_chrome_listening(port, max_retries=10, ...)
max_attempts == 5   \* WSLOrchestrator.run: max_attempts = 5

Procs == {"main", "remote"}
Envs == {"windows", "wsl", "linux", "macos", "unknown"}
Browsers == {"chrome", "firefox", "librewolf"}
Ports == {9222, 9223}
Addrs == {"10.0.0.5", "192.168.1.1"}
Loopback == "127.0.0.1"
NoAddr == ""
NoPath == <<>>
NoMessage == <<>>

(***************************************************************************)
(* Failure reasons: the error_message texts of the two result records and  *)
(* of main().  A text is a sequence of its pieces.                         *)
(***************************************************************************)
PermissionDenied == <<"Administrator privileges required">>
AdapterNotFound == <<"Could not detect WSL adapter IP">>
BrowserNotFound(b) == <<"Could not find ", b, " installation">>
LaunchFailed == <<"Failed to launch browser">>
BrowserNotListening == <<"Browser did not start listening on debug port">>
RelayInstallFailed == <<"Failed to configure portproxy">>
HostAddressUnknown == <<"Could not detect Windows host IP from WSL">>
ScriptPathUnknown == <<"Could not determine Windows path to script">>
RemoteSetupFailed(output) == <<"Windows setup failed: ">> \o output
ConnectivityVerificationFailed == <<"Connection verification failed">>
PowerShellTimedOut == <<"PowerShell command timed out">>
PowerShellFailed(e) == <<"Failed to run PowerShell: ", e>>

\* What the helpers print with printer.error before they return a failure.
RelayNeedsPrivilege == <<"Administrator privileges required for portproxy setup">>
RelayAddFailed(err) == <<"Failed to configure portproxy: ", err>>
RelayError(e) == <<"Error setting up portproxy: ", e>>
LaunchError(e) == <<"Failed to launch browser: ", e>>

(***************************************************************************)
(* Text helpers: str.strip() on a text whose pieces may be whitespace.     *)
(***************************************************************************)
Whitespace == {" ", "\n"}

RECURSIVE lstrip(_)
lstrip(s) ==
    IF s # <<>> /\ Head(s) \in Whitespace THEN lstrip(Tail(s)) ELSE s

RECURSIVE rstrip(_)
rstrip(s) ==
    IF s # <<>> /\ s[Len(s)] \in Whitespace
    THEN rstrip(SubSeq(s, 1, Len(s) - 1)) ELSE s

strip(s) == rstrip(lstrip(s))

Min(S) == CHOOSE x \in S : \A y \in S : x <= y

(***************************************************************************)
(* State.                                                                  *)
(***************************************************************************)
VARIABLES
    \* the command line and the invocation count
    browser,        \* args.browser
    port,           \* args.port
    runs,           \* invocations of "main" started so far
    \* the machine the browser runs on
    rules,          \* netsh portproxy v4tov4 rule set
    netsh,          \* how the netsh commands end: [del, add]
    running,        \* browser processes alive, named by who started them
    profile,        \* the profile directory: "absent", "present", "partial"
    files,          \* <<context, i>>: the i-th fixed install path exists there
    pathBins,       \* <<context, j>>: the j-th binary name is on PATH there
    \* the guest
    resolv,         \* /etc/resolv.conf: [readable, lines]
    route,          \* `ip route show default`: [raises, returncode, stdout]
    scriptOnMnt,    \* os.path.abspath(__file__) starts with /mnt/
    \* the host of the invocation the user starts
    system,         \* platform.system()
    version,        \* reading /proc/version: [how, text]
    \* per invocation
    pc,             \* position in main() / run()
    env,            \* what detect_environment() returns there
    orchestrator,   \* the path main() took: "none", "windows", "wsl", "simple",
                    \* "cleanup"
    admin,          \* what is_admin() returns there
    wres,           \* WindowsSetupResult
    gres,           \* WSLSetupResult
    exit,           \* return value of main(), -1 while running
    calls,          \* external commands issued, in order: [cmd, out]
    errors,         \* messages printed with printer.error, in order
    attempt,        \* loop counter of the polling loop being executed
    sleeps,         \* time.sleep(...) calls made by the polling loops
    connects,       \* verify_connection(...) calls made by the guest run
    endpoint,       \* the "Browser debug endpoint" reported on success
    stderr,         \* captured stderr of the powershell.exe child
    channel,        \* how run_powershell_from_wsl ended, "none" before
    snap,           \* the machine state when the invocation started
    verified,       \* the last probe of the polling loop being executed succeeded
    listening,      \* a browser process was running when success was reported
    installs,       \* relay-only specifications: calls of the helper made
    mode,           \* the command line there: "setup", "cleanup", "detect_only"
    retries,        \* wait-only specification: the max_retries argument
    returned        \* helper-only specifications: what the last call returned

vars == <<browser, port, runs, rules, netsh, running, profile, files, pathBins,
          resolv, route, scriptOnMnt, system, version, pc, env, orchestrator, admin, wres, gres, exit,
          calls, errors, attempt, sleeps, connects, endpoint, stderr, channel,
          snap, verified, listening, installs, mode, retries, returned>>

machine == <<rules, running, profile>>
world == <<netsh, files, pathBins, resolv, route, scriptOnMnt, system, version>>
given == <<browser, port, runs, world, env, admin, installs, mode, retries,
           returned>>
fixed == <<given, listening>>

(***************************************************************************)
(* detect_environment.  platform.system() is a name as the platform spells *)
(* it; the text of /proc/version is a sequence of pieces, split so that a  *)
(* marker, when there is one, is a piece; str.lower() maps the pieces that *)
(* have upper-case letters.  Reading the file ends with the text ("ok"),   *)
(* or open() raises FileNotFoundError, or open() or read() raises another  *)
(* exception (PermissionError, another OSError).                           *)
(***************************************************************************)
Lower(piece) ==
    CASE piece = "Windows" -> "windows"
      [] piece = "Linux" -> "linux"
      [] piece = "Darwin" -> "darwin"
      [] piece = "FreeBSD" -> "freebsd"
      [] piece = "Java" -> "java"
      [] piece \in {"Microsoft", "MICROSOFT"} -> "microsoft"
      [] piece = "WSL" -> "wsl"
      [] OTHER -> piece

Markers == {"microsoft", "wsl"}

HasMarker(text) == \E i \in 1..Len(text) : Lower(text[i]) \in Markers

ReadOutcomes == {"ok", "FileNotFoundError", "PermissionError", "OSError"}

\* The Environment returned, or "raise" when an exception leaves the function.
detect_environment(sys, ver) ==
    CASE Lower(sys) = "windows" -> "windows"
      [] Lower(sys) = "linux" ->
           (CASE ver.how = "ok" -> (IF HasMarker(ver.text) THEN "wsl" ELSE "linux")
              [] ver.how = "FileNotFoundError" -> "linux"
              [] OTHER -> "raise")
      [] Lower(sys) = "darwin" -> "macos"
      [] OTHER -> "unknown"

(***************************************************************************)
(* BROWSER_PATHS and browser_names: the number of fixed install paths per  *)
(* (browser, context) and of binary names per browser.                     *)
(***************************************************************************)
NumDefaultPaths(b, e) ==
    CASE e = "windows" -> (IF b = "librewolf" THEN 2 ELSE 3)
      [] e = "wsl" -> 2
      [] e = "linux" -> (IF b = "chrome" THEN 5 ELSE IF b = "firefox" THEN 3 ELSE 2)
      [] e = "macos" -> 1
      [] OTHER -> 0

NumBrowserNames(b) ==
    CASE b = "chrome" -> 5
      [] b = "firefox" -> 2
      [] OTHER -> 1

\* Variant: the search path is consulted before the fixed install paths.
find_browser_path_first(b, e) ==
    LET hits == {i \in 1..NumDefaultPaths(b, e) : <<e, i>> \in files}
        found == {j \in 1..NumBrowserNames(b) : <<e, j>> \in pathBins}
    IN  IF found # {} THEN <<"which", e, Min(found)>>
        ELSE IF hits # {} THEN <<"default_paths", e, Min(hits)>>
        ELSE NoPath

\* find_browser: the first fixed path that is a file, else the first name
\* found on PATH, else None.
find_browser(b, e) ==
    LET hits == {i \in 1..NumDefaultPaths(b, e) : <<e, i>> \in files}
        found == {j \in 1..NumBrowserNames(b) : <<e, j>> \in pathBins}
    IN  IF hits # {} THEN <<"default_paths", e, Min(hits)>>
        ELSE IF found # {} THEN <<"which", e, Min(found)>>
        ELSE NoPath

get_process_name(b, e) ==
    IF e = "windows" THEN <<b, ".exe">> ELSE <<b>>

(***************************************************************************)
(* detect_wsl_host_ip.  A line of resolv.conf is the sequence of its       *)
(* whitespace-separated parts; startswith("nameserver") looks at the first.*)
(***************************************************************************)
StartsWithNameserver(line) ==
    line # <<>> /\ line[1] \in {"nameserver", "nameservers"}

RECURSIVE FirstNameserver(_)
FirstNameserver(lines) ==
    IF lines = <<>> THEN NoAddr
    ELSE IF StartsWithNameserver(Head(lines)) /\ Len(Head(lines)) >= 2
         THEN Head(lines)[2]
         ELSE FirstNameserver(Tail(lines))

DefaultRoute(rt) ==
    IF rt.returncode = 0 /\ Len(rt.stdout) >= 3
       /\ rt.stdout[1] = "default" /\ rt.stdout[2] = "via"
    THEN rt.stdout[3] ELSE NoAddr

detect_wsl_host_ip(e, rc, rt) ==
    IF e # "wsl" THEN NoAddr
    ELSE IF ~rc.readable THEN NoAddr            \* open() raises: except Exception
    ELSE IF FirstNameserver(rc.lines) # NoAddr THEN FirstNameserver(rc.lines)
    ELSE IF rt.raises THEN NoAddr               \* subprocess.run raises
    ELSE DefaultRoute(rt)

(***************************************************************************)
(* netsh interface portproxy, and setup_portproxy on top of it.            *)
(***************************************************************************)
Rule(la, lp, ca, cp) ==
    [listenaddress |-> la, listenport |-> lp,
     connectaddress |-> ca, connectport |-> cp]

Matches(r, la, lp) == r.listenaddress = la /\ r.listenport = lp

NetshDelete(rs, la, lp) == {r \in rs : ~Matches(r, la, lp)}

NetshAdd(rs, r) == NetshDelete(rs, r.listenaddress, r.listenport) \cup {r}

Outcomes == {"ok", "fail", "raise"}

\* An external command and how it ended.
Cmd(c, o) == [cmd |-> c, out |-> o]

\* The ways `netsh ... delete` and `netsh ... add` can end.  netsh.del and
\* netsh.add say how the command behaves: "any" leaves the outcome open;
\* "status" is netsh answering by the rule set alone (delete exits 0 exactly
\* when a rule for the pair exists); an outcome is netsh always ending so.
DelOutcomes(rs, la, lp) ==
    CASE netsh.del = "any" -> Outcomes
      [] netsh.del = "status" ->
           {IF \E r \in rs : Matches(r, la, lp) THEN "ok" ELSE "fail"}
      [] OTHER -> {netsh.del}

AddOutcomes ==
    IF netsh.add = "any" THEN Outcomes ELSE {netsh.add}

\* Variant: the install does not look at the privilege.
setup_portproxy_unprivileged(rs, isadmin, wsl_ip, p, del, add) ==
    LET both == <<Cmd("netsh delete", del), Cmd("netsh add", add)>>
        rs1 == IF del = "ok" THEN NetshDelete(rs, wsl_ip, p) ELSE rs
    IN  IF del = "raise"
        THEN [ret |-> FALSE, rules |-> rs, cmds |-> <<Cmd("netsh delete", del)>>,
              msgs |-> <<RelayError("timed out")>>]
        ELSE IF add = "ok"
        THEN [ret |-> TRUE,
              rules |-> NetshAdd(rs1, Rule(wsl_ip, p, Loopback, p)),
              cmds |-> both, msgs |-> <<>>]
        ELSE [ret |-> FALSE, rules |-> rs1, cmds |-> both,
              msgs |-> <<RelayError("timed out")>>]

\* Variant: a delete that exits non-zero ends the install.
setup_portproxy_strict_delete(rs, isadmin, wsl_ip, p, del, add) ==
    LET both == <<Cmd("netsh delete", del), Cmd("netsh add", add)>>
    IN  IF ~isadmin
        THEN [ret |-> FALSE, rules |-> rs, cmds |-> <<>>,
              msgs |-> <<RelayNeedsPrivilege>>]
        ELSE IF del \in {"raise", "fail"}
        THEN [ret |-> FALSE, rules |-> rs, cmds |-> <<Cmd("netsh delete", del)>>,
              msgs |-> <<RelayError("timed out")>>]
        ELSE IF add = "ok"
        THEN [ret |-> TRUE,
              rules |-> NetshAdd(NetshDelete(rs, wsl_ip, p),
                                 Rule(wsl_ip, p, Loopback, p)),
              cmds |-> both, msgs |-> <<>>]
        ELSE [ret |-> FALSE, rules |-> NetshDelete(rs, wsl_ip, p), cmds |-> both,
              msgs |-> <<RelayError("timed out")>>]

\* Variant: the rule added connects to the listen address.
setup_portproxy_connect_listen(rs, isadmin, wsl_ip, p, del, add) ==
    LET both == <<Cmd("netsh delete", del), Cmd("netsh add", add)>>
        rs1 == IF del = "ok" THEN NetshDelete(rs, wsl_ip, p) ELSE rs
    IN  IF ~isadmin
        THEN [ret |-> FALSE, rules |-> rs, cmds |-> <<>>,
              msgs |-> <<RelayNeedsPrivilege>>]
        ELSE IF del = "raise"
        THEN [ret |-> FALSE, rules |-> rs, cmds |-> <<Cmd("netsh delete", del)>>,
              msgs |-> <<RelayError("timed out")>>]
        ELSE IF add = "ok"
        THEN [ret |-> TRUE,
              rules |-> NetshAdd(rs1, Rule(wsl_ip, p, wsl_ip, p)),
              cmds |-> both, msgs |-> <<>>]
        ELSE [ret |-> FALSE, rules |-> rs1, cmds |-> both,
              msgs |-> <<RelayError("timed out")>>]

\* Variant: a delete that removed a rule ends the install, nothing added.
setup_portproxy_delete_only(rs, isadmin, wsl_ip, p, del, add) ==
    LET both == <<Cmd("netsh delete", del), Cmd("netsh add", add)>>
    IN  IF ~isadmin
        THEN [ret |-> FALSE, rules |-> rs, cmds |-> <<>>,
              msgs |-> <<RelayNeedsPrivilege>>]
        ELSE IF del = "raise"
        THEN [ret |-> FALSE, rules |-> rs, cmds |-> <<Cmd("netsh delete", del)>>,
              msgs |-> <<RelayError("timed out")>>]
        ELSE IF del = "ok" /\ rs # NetshDelete(rs, wsl_ip, p)
        THEN [ret |-> TRUE, rules |-> NetshDelete(rs, wsl_ip, p),
              cmds |-> <<Cmd("netsh delete", del)>>, msgs |-> <<>>]
        ELSE IF add = "ok"
        THEN [ret |-> TRUE, rules |-> NetshAdd(rs, Rule(wsl_ip, p, Loopback, p)),
              cmds |-> both, msgs |-> <<>>]
        ELSE [ret |-> FALSE, rules |-> rs, cmds |-> both,
              msgs |-> <<RelayError("timed out")>>]

\* Variant: an add that does not succeed puts the deleted rule back.
setup_portproxy_rollback(rs, isadmin, wsl_ip, p, del, add) ==
    LET both == <<Cmd("netsh delete", del), Cmd("netsh add", add)>>
        rs1 == IF del = "ok" THEN NetshDelete(rs, wsl_ip, p) ELSE rs
    IN  IF ~isadmin
        THEN [ret |-> FALSE, rules |-> rs, cmds |-> <<>>,
              msgs |-> <<RelayNeedsPrivilege>>]
        ELSE IF del = "raise"
        THEN [ret |-> FALSE, rules |-> rs, cmds |-> <<Cmd("netsh delete", del)>>,
              msgs |-> <<RelayError("timed out")>>]
        ELSE IF add = "ok"
        THEN [ret |-> TRUE,
              rules |-> NetshAdd(rs1, Rule(wsl_ip, p, Loopback, p)),
              cmds |-> both, msgs |-> <<>>]
        ELSE [ret |-> FALSE, rules |-> rs, cmds |-> both,
              msgs |-> <<RelayError("timed out")>>]

\* del, add: how the two netsh commands end ("ok": exit 0, "fail": non-zero
\* exit without effect, "raise": subprocess.run raises, without effect).
\* The result: the return value, the rule set left, the commands issued and
\* the messages printed with printer.error.
setup_portproxy(rs, isadmin, wsl_ip, p, del, add) ==
    LET both == <<Cmd("netsh delete", del), Cmd("netsh add", add)>>
        rs1 == IF del = "ok" THEN NetshDelete(rs, wsl_ip, p) ELSE rs
    IN  IF ~isadmin
        THEN [ret |-> FALSE, rules |-> rs, cmds |-> <<>>,
              msgs |-> <<RelayNeedsPrivilege>>]
        ELSE IF del = "raise"
        THEN [ret |-> FALSE, rules |-> rs, cmds |-> <<Cmd("netsh delete", del)>>,
              msgs |-> <<RelayError("timed out")>>]
        ELSE IF add = "ok"
        THEN [ret |-> TRUE,
              rules |-> NetshAdd(rs1, Rule(wsl_ip, p, Loopback, p)),
              cmds |-> both, msgs |-> <<>>]
        ELSE IF add = "fail"
        THEN [ret |-> FALSE, rules |-> rs1, cmds |-> both,
              msgs |-> <<RelayAddFailed("The parameter is incorrect.")>>]
        ELSE [ret |-> FALSE, rules |-> rs1, cmds |-> both,
              msgs |-> <<RelayError("timed out")>>]

\* Variant: a delete that exits non-zero makes the removal fail.
cleanup_portproxy_strict(rs, isadmin, wsl_ip, p, del) ==
    IF ~isadmin
    THEN [ret |-> FALSE, rules |-> rs, cmds |-> <<>>]
    ELSE [ret |-> del = "ok",
          rules |-> IF del = "ok" THEN NetshDelete(rs, wsl_ip, p) ELSE rs,
          cmds |-> <<Cmd("netsh delete", del)>>]

\* cleanup_portproxy: the return value, the rule set left and the commands
\* issued; what it prints are warnings.
cleanup_portproxy(rs, isadmin, wsl_ip, p, del) ==
    IF ~isadmin
    THEN [ret |-> FALSE, rules |-> rs, cmds |-> <<>>]
    ELSE IF del = "raise"
    THEN [ret |-> FALSE, rules |-> rs, cmds |-> <<Cmd("netsh delete", del)>>]
    ELSE [ret |-> TRUE,
          rules |-> IF del = "ok" THEN NetshDelete(rs, wsl_ip, p) ELSE rs,
          cmds |-> <<Cmd("netsh delete", del)>>]

(***************************************************************************)
(* The result records and the small steps shared by the actions.           *)
(***************************************************************************)
WindowsSetupResult ==
    [success |-> FALSE, wsl_ip |-> NoAddr, portproxy_configured |-> FALSE,
     chrome_listening |-> FALSE, error_message |-> NoMessage]

WSLSetupResult ==
    [success |-> FALSE, windows_host_ip |-> NoAddr,
     windows_setup_completed |-> FALSE, connection_verified |-> FALSE,
     error_message |-> NoMessage]

\* Variant: the privilege check always passes.
is_admin_always(p) == TRUE

is_admin(p) == env[p] = "windows" /\ admin[p]

\* Variant: main() returns 0 whatever the result.
ExitStatus_zero(success) == 0

\* main(): "if not result.success: return 1" / "return 0"
ExitStatus(success) == IF success THEN 0 ELSE 1

\* main() returns: the invocation is over.
Return(p, status) ==
    /\ pc' = [pc EXCEPT ![p] = "done"]
    /\ exit' = [exit EXCEPT ![p] = status]

Goto(p, label) ==
    /\ pc' = [pc EXCEPT ![p] = label]
    /\ UNCHANGED exit

\* result.error_message = msg; printer.error(msg); return result; and main()
\* maps the failed result to its exit status.
WFail(p, msg) ==
    /\ wres' = [wres EXCEPT ![p].error_message = msg]
    /\ errors' = [errors EXCEPT ![p] = Append(@, msg)]
    /\ Return(p, ExitStatus(wres[p].success))

GFail(p, msg) ==
    /\ gres' = [gres EXCEPT ![p].error_message = msg]
    /\ errors' = [errors EXCEPT ![p] = Append(@, msg)]
    /\ Return(p, ExitStatus(gres[p].success))

(***************************************************************************)
(* main(), default (setup) invocation: lines 1501-1563.                    *)
(***************************************************************************)
\* Variant: every context but the guest runs the control-side orchestrator.
Dispatch_control_everywhere(e) ==
    CASE e = "wsl" -> "wsl"
      [] OTHER -> "windows"

\* Which orchestration main() runs for a context once the browser is found.
Dispatch(e) ==
    CASE e = "windows" -> "windows"
      [] e = "wsl" -> "wsl"
      [] OTHER -> "simple"

\* Variant: the control-side run starts at the stale-process termination.
FirstStep_ungated(o) ==
    CASE o = "windows" -> "kill"
      [] o = "wsl" -> "g_detect"
      [] OTHER -> "kill"

FirstStep(o) ==
    CASE o = "windows" -> "w_admin"
      [] o = "wsl" -> "g_detect"
      [] OTHER -> "kill"

\* detect_environment(), the informational detect_wsl_host_ip() in the guest,
\* then find_browser; "return 1" when it finds nothing; "return 0" with
\* --detect-only; the cleanup with --cleanup; else the dispatch.
MainLocate(p) ==
    /\ pc[p] = "main"
    /\ IF find_browser(browser, env[p]) = NoPath
       THEN /\ errors' = [errors EXCEPT ![p] = Append(@, BrowserNotFound(browser))]
            /\ Return(p, 1)
            /\ UNCHANGED orchestrator
       ELSE IF mode[p] = "detect_only"
       THEN /\ Return(p, 0)
            /\ UNCHANGED <<orchestrator, errors>>
       ELSE IF mode[p] = "cleanup"
       THEN /\ orchestrator' = [orchestrator EXCEPT ![p] = "cleanup"]
            /\ Goto(p, "kill")
            /\ UNCHANGED errors
       ELSE /\ orchestrator' = [orchestrator EXCEPT ![p] = Dispatch(env[p])]
            /\ Goto(p, FirstStep(Dispatch(env[p])))
            /\ UNCHANGED errors
    /\ UNCHANGED <<fixed, verified, machine, wres, gres, calls, attempt, sleeps,
                   connects, endpoint, stderr, channel, snap>>

(***************************************************************************)
(* WindowsOrchestrator.run                                                 *)
(***************************************************************************)
\* "if not is_admin()"
WAdmin(p) ==
    /\ pc[p] = "w_admin"
    /\ IF ~is_admin(p)
       THEN WFail(p, PermissionDenied)
       ELSE Goto(p, "w_adapter") /\ UNCHANGED <<wres, errors>>
    /\ UNCHANGED <<fixed, verified, machine, orchestrator, gres, calls, attempt, sleeps,
                   connects, endpoint, stderr, channel, snap>>

\* Variant: the run goes on without an adapter address.
WAdapter_continue(p) ==
    /\ pc[p] = "w_adapter"
    /\ \E ip \in Addrs \cup {NoAddr} :
         IF ip = NoAddr
         THEN /\ wres' = [wres EXCEPT ![p].wsl_ip = ip,
                                      ![p].error_message = AdapterNotFound]
              /\ errors' = [errors EXCEPT ![p] = Append(@, AdapterNotFound)]
              /\ Goto(p, "w_find")
         ELSE /\ wres' = [wres EXCEPT ![p].wsl_ip = ip]
              /\ Goto(p, "w_find")
              /\ UNCHANGED errors
    /\ UNCHANGED <<fixed, verified, machine, orchestrator, gres, calls, attempt, sleeps,
                   connects, endpoint, stderr, channel, snap>>

\* self.wsl_ip = get_wsl_adapter_ip(); the PowerShell query answers with an
\* address or with nothing.
WAdapter(p) ==
    /\ pc[p] = "w_adapter"
    /\ \E ip \in Addrs \cup {NoAddr} :
         IF ip = NoAddr
         THEN /\ wres' = [wres EXCEPT ![p].wsl_ip = ip,
                                      ![p].error_message = AdapterNotFound]
              /\ errors' = [errors EXCEPT ![p] = Append(@, AdapterNotFound)]
              /\ Return(p, ExitStatus(wres[p].success))
         ELSE /\ wres' = [wres EXCEPT ![p].wsl_ip = ip]
              /\ Goto(p, "w_find")
              /\ UNCHANGED errors
    /\ UNCHANGED <<fixed, verified, machine, orchestrator, gres, calls, attempt, sleeps,
                   connects, endpoint, stderr, channel, snap>>

\* browser_path = find_browser(self.browser, self.env)
WFind(p) ==
    /\ pc[p] = "w_find"
    /\ IF find_browser(browser, "windows") = NoPath
       THEN WFail(p, BrowserNotFound(browser))
       ELSE Goto(p, "kill") /\ UNCHANGED <<wres, errors>>
    /\ UNCHANGED <<fixed, verified, machine, orchestrator, gres, calls, attempt, sleeps,
                   connects, endpoint, stderr, channel, snap>>

(***************************************************************************)
(* kill_browser, cleanup_profile, launch_browser: called by                *)
(* WindowsOrchestrator.run and by the simple launch of main().             *)
(***************************************************************************)
\* Variant: a kill command that raises ends the invocation as a failure.
KillBrowser_abort(p) ==
    /\ pc[p] = "kill"
    /\ \E out \in Outcomes :
         /\ running' = IF out = "ok" THEN {} ELSE running
         /\ calls' = [calls EXCEPT ![p] =
                        Append(@, Cmd(IF env[p] = "windows" THEN "taskkill"
                                                            ELSE "pkill", out))]
         /\ IF out = "raise"
            THEN /\ errors' = [errors EXCEPT
                                 ![p] = Append(@, <<"Could not kill ", browser>>)]
                 /\ wres' = [wres EXCEPT
                               ![p].error_message = <<"Could not kill ", browser>>]
                 /\ Return(p, 1)
            ELSE /\ Goto(p, IF orchestrator[p] = "cleanup" THEN "unrelay"
                                                            ELSE "clean")
                 /\ UNCHANGED <<wres, errors>>
    /\ UNCHANGED <<fixed, verified, rules, profile, orchestrator, gres,
                   attempt, sleeps, connects, endpoint, stderr, channel, snap>>

\* taskkill / pkill ends every instance ("ok"), ends none ("fail": non-zero
\* exit, ignored), or the command raises (warning only).
KillBrowser(p) ==
    /\ pc[p] = "kill"
    /\ \E out \in Outcomes :
         /\ running' = IF out = "ok" THEN {} ELSE running
         /\ calls' = [calls EXCEPT ![p] =
                        Append(@, Cmd(IF env[p] = "windows" THEN "taskkill"
                                                            ELSE "pkill", out))]
    /\ Goto(p, IF orchestrator[p] = "cleanup" THEN "unrelay" ELSE "clean")
    /\ UNCHANGED <<fixed, verified, rules, profile, orchestrator, wres, gres, errors,
                   attempt, sleeps, connects, endpoint, stderr, channel, snap>>

\* Variant: removing the profile directory ends the browsers that use it.
CleanupProfile_ends_browser(p) ==
    /\ pc[p] = "clean"
    /\ IF profile = "absent"
       THEN UNCHANGED <<profile, calls, running>>
       ELSE \E left \in {"absent", "partial", profile} :
              /\ profile' = left
              /\ running' = {}
              /\ calls' = [calls EXCEPT ![p] = Append(@, Cmd("rmtree", left))]
    /\ Goto(p, "launch")
    /\ UNCHANGED <<fixed, verified, rules, orchestrator, wres, gres, errors,
                   attempt, sleeps, connects, endpoint, stderr, channel, snap>>

\* shutil.rmtree(profile_dir, ignore_errors=True) when the directory exists:
\* everything is removed, or the removals that fail leave part or all of it.
CleanupProfile(p) ==
    /\ pc[p] = "clean"
    /\ IF profile = "absent"
       THEN UNCHANGED <<profile, calls>>
       ELSE \E left \in {"absent", "partial", profile} :
              /\ profile' = left
              /\ calls' = [calls EXCEPT ![p] = Append(@, Cmd("rmtree", left))]
    /\ Goto(p, "launch")
    /\ UNCHANGED <<fixed, verified, rules, running, orchestrator, wres, gres, errors,
                   attempt, sleeps, connects, endpoint, stderr, channel, snap>>

\* subprocess.Popen(...): a detached process, or None when Popen raises.
\* After it: the liveness wait on the control side; "return 0" after the
\* simple launch; the failure of either caller when there is no process.
LaunchBrowser(p) ==
    /\ pc[p] = "launch"
    /\ \E started \in BOOLEAN :
         /\ calls' = [calls EXCEPT ![p] =
                        Append(@, Cmd("Popen", IF started THEN "ok" ELSE "raise"))]
         /\ IF started
            THEN /\ running' = running \cup {p}
                 /\ profile' = IF profile = "absent" THEN "present" ELSE profile
                 /\ IF orchestrator[p] = "windows"
                    THEN Goto(p, "w_wait")
                    ELSE Return(p, 0)
                 /\ UNCHANGED <<wres, errors>>
            ELSE /\ UNCHANGED <<running, profile>>
                 /\ errors' = [errors EXCEPT
                                   ![p] = @ \o <<LaunchError("[Errno 13] Permission denied"),
                                                  LaunchFailed>>]
                 /\ IF orchestrator[p] = "windows"
                    THEN /\ wres' = [wres EXCEPT ![p].error_message = LaunchFailed]
                         /\ Return(p, ExitStatus(wres[p].success))
                    ELSE /\ Return(p, 1)
                         /\ UNCHANGED wres
    /\ UNCHANGED <<fixed, verified, rules, orchestrator, gres, attempt, sleeps,
                   connects, endpoint, stderr, channel, snap>>

(***************************************************************************)
(* verify_chrome_listening(self.debug_port), one attempt of its loop per   *)
(* step.  probe: the port is closed, open without valid metadata, open     *)
(* with valid /json/version metadata, or the socket call raises.           *)
(***************************************************************************)
Probes == {"closed", "open", "valid", "raise"}

\* Variant: a failed probe is always followed by a sleep and another probe.
verify_chrome_listening_endless(att, probe, n) ==
    IF probe = "valid" THEN "true" ELSE "sleep"

\* Variant: an open port counts as listening without its metadata checked.
verify_chrome_listening_open(att, probe, n) ==
    IF att >= n THEN "false"
    ELSE IF probe \in {"valid", "open"} THEN "true"
    ELSE IF att < n - 1 THEN "sleep"
    ELSE "false"

\* Variant: the loop runs once more than max_retries says.
verify_chrome_listening_one_more(att, probe, n) ==
    IF att > n THEN "false"
    ELSE IF probe = "valid" THEN "true"
    ELSE IF att < n THEN "sleep"
    ELSE "false"

\* Variant: an exception of the socket calls is not caught.
verify_chrome_listening_unguarded(att, probe, n) ==
    IF att >= n THEN "false"
    ELSE IF probe = "valid" THEN "true"
    ELSE IF probe = "raise" THEN "raise"
    ELSE IF att < n - 1 THEN "sleep"
    ELSE "false"

\* "for attempt in range(max_retries)" with max_retries = n, at iteration
\* att: "false" at once when the range has no such iteration (return False
\* after the loop); else one iteration: "true" is return True, "sleep" is
\* time.sleep(delay) and the next iteration, "false" is the last iteration
\* ending without a sleep and return False.
verify_chrome_listening(att, probe, n) ==
    IF att >= n THEN "false"
    ELSE IF probe = "valid" THEN "true"
    ELSE IF att < n - 1 THEN "sleep"
    ELSE "false"

\* What a probe of the debug port can find: valid /json/version metadata
\* only when a browser process is there to answer.
ProbesAt(procs) == IF procs = {} THEN Probes \ {"valid"} ELSE Probes

\* Variant: a wait that fails ends the browser the run spawned.
WWait_rollback(p) ==
    /\ pc[p] = "w_wait"
    /\ attempt[p] < max_retries
    /\ \E probe \in ProbesAt(running) :
         LET v == verify_chrome_listening(attempt[p], probe, max_retries)
         IN  /\ verified' = [verified EXCEPT ![p] = (probe = "valid")]
             /\ attempt' = [attempt EXCEPT ![p] = IF v = "true" THEN @ ELSE @ + 1]
             /\ sleeps' = [sleeps EXCEPT ![p] = IF v = "sleep" THEN @ + 1 ELSE @]
             /\ running' = IF v = "false" THEN running \ {p} ELSE running
             /\ CASE v = "true" ->
                       /\ wres' = [wres EXCEPT ![p].chrome_listening = TRUE]
                       /\ Goto(p, "w_relay")
                       /\ UNCHANGED errors
                  [] v = "sleep" ->
                       /\ Goto(p, "w_wait")
                       /\ UNCHANGED <<wres, errors>>
                  [] OTHER -> WFail(p, BrowserNotListening)
    /\ UNCHANGED <<fixed, rules, profile, orchestrator, gres, calls, connects,
                   endpoint, stderr, channel, snap>>

\* Variant: a wait that succeeds does not set chrome_listening.
WWait_unmarked(p) ==
    /\ pc[p] = "w_wait"
    /\ attempt[p] < max_retries
    /\ \E probe \in ProbesAt(running) :
         LET v == verify_chrome_listening(attempt[p], probe, max_retries)
         IN  /\ verified' = [verified EXCEPT ![p] = (probe = "valid")]
             /\ attempt' = [attempt EXCEPT ![p] = IF v = "true" THEN @ ELSE @ + 1]
             /\ sleeps' = [sleeps EXCEPT ![p] = IF v = "sleep" THEN @ + 1 ELSE @]
             /\ CASE v = "true" ->
                       /\ Goto(p, "w_relay")
                       /\ UNCHANGED <<wres, errors>>
                  [] v = "sleep" ->
                       /\ Goto(p, "w_wait")
                       /\ UNCHANGED <<wres, errors>>
                  [] OTHER -> WFail(p, BrowserNotListening)
    /\ UNCHANGED <<fixed, machine, orchestrator, gres, calls, connects,
                   endpoint, stderr, channel, snap>>

\* "if not verify_chrome_listening(self.debug_port): ... return result",
\* else "result.chrome_listening = True" and the relay install.
WWait(p) ==
    /\ pc[p] = "w_wait"
    /\ attempt[p] < max_retries
    /\ \E probe \in ProbesAt(running) :
         LET v == verify_chrome_listening(attempt[p], probe, max_retries)
         IN  /\ verified' = [verified EXCEPT ![p] = (probe = "valid")]
             /\ attempt' = [attempt EXCEPT ![p] = IF v = "true" THEN @ ELSE @ + 1]
             /\ sleeps' = [sleeps EXCEPT ![p] = IF v = "sleep" THEN @ + 1 ELSE @]
             /\ CASE v = "true" ->
                       /\ wres' = [wres EXCEPT ![p].chrome_listening = TRUE]
                       /\ Goto(p, "w_relay")
                       /\ UNCHANGED errors
                  [] v = "sleep" ->
                       /\ Goto(p, "w_wait")
                       /\ UNCHANGED <<wres, errors>>
                  [] OTHER -> WFail(p, BrowserNotListening)
    /\ UNCHANGED <<fixed, machine, orchestrator, gres, calls, connects,
                   endpoint, stderr, channel, snap>>

\* Variant: the endpoint reported is the loopback address of the browser.
Endpoint_loopback(ip, prt) == <<Loopback, prt>>

\* "Browser debug endpoint: {self.wsl_ip}:{self.debug_port}"
Endpoint(ip, prt) == <<ip, prt>>

\* setup_portproxy(self.wsl_ip, self.debug_port), then success.
WRelay(p) ==
    /\ pc[p] = "w_relay"
    /\ \E del \in DelOutcomes(rules, wres[p].wsl_ip, port), add \in AddOutcomes :
         LET r == setup_portproxy(rules, is_admin(p), wres[p].wsl_ip, port,
                                  del, add)
         IN  /\ rules' = r.rules
             /\ calls' = [calls EXCEPT ![p] = @ \o r.cmds]
             /\ IF r.ret
                THEN /\ wres' = [wres EXCEPT ![p].portproxy_configured = TRUE,
                                             ![p].success = TRUE]
                     /\ endpoint' = [endpoint EXCEPT
                                       ![p] = Endpoint(wres[p].wsl_ip, port)]
                     /\ listening' = [listening EXCEPT ![p] = running # {}]
                     /\ Return(p, ExitStatus(TRUE))
                     /\ UNCHANGED errors
                ELSE /\ wres' = [wres EXCEPT
                                       ![p].error_message = RelayInstallFailed]
                     /\ errors' = [errors EXCEPT
                                       ![p] = @ \o r.msgs \o <<RelayInstallFailed>>]
                     /\ Return(p, ExitStatus(wres[p].success))
                     /\ UNCHANGED <<endpoint, listening>>
    /\ UNCHANGED <<given, verified, running, profile, orchestrator, gres, attempt,
                   sleeps, connects, stderr, channel, snap>>
(***************************************************************************)
(* WSLOrchestrator.run                                                     *)
(***************************************************************************)
\* self.windows_host_ip = detect_wsl_host_ip()
GDetect(p) ==
    /\ pc[p] = "g_detect"
    /\ LET ip == detect_wsl_host_ip(env[p], resolv, route)
       IN  IF ip = NoAddr
           THEN /\ gres' = [gres EXCEPT ![p].windows_host_ip = ip,
                                        ![p].error_message = HostAddressUnknown]
                /\ errors' = [errors EXCEPT ![p] = Append(@, HostAddressUnknown)]
                /\ Return(p, ExitStatus(gres[p].success))
           ELSE /\ gres' = [gres EXCEPT ![p].windows_host_ip = ip]
                /\ Goto(p, "g_check")
                /\ UNCHANGED errors
    /\ UNCHANGED <<fixed, verified, machine, orchestrator, wres, calls, attempt, sleeps,
                   connects, endpoint, stderr, channel, snap>>

\* Where the run goes after "Checking existing connection...": it returns
\* when the port is reachable; else it goes on to the remote setup when the
\* script lies under /mnt/, and fails when it does not.
\* Variant: the run does not return after a successful check.
AfterCheck_no_return(reachable, onmnt) ==
    IF onmnt THEN "g_remote" ELSE "fail"

\* Variant: the remote setup is started whenever the script lies under
\* /mnt/, whatever the check found.
AfterCheck_remote_first(reachable, onmnt) ==
    IF onmnt THEN "g_remote"
    ELSE IF reachable THEN "done"
    ELSE "fail"

AfterCheck(reachable, onmnt) ==
    IF reachable THEN "done"
    ELSE IF onmnt THEN "g_remote"
    ELSE "fail"

\* Variant: the successful check does not set connection_verified.
Checked_unverified(res, reachable) ==
    IF reachable
    THEN [res EXCEPT !.success = TRUE,
                     !.windows_setup_completed = TRUE]
    ELSE res

\* The result after the check: the three fields set when it succeeded.
Checked(res, reachable) ==
    IF reachable
    THEN [res EXCEPT !.success = TRUE,
                     !.windows_setup_completed = TRUE,
                     !.connection_verified = TRUE]
    ELSE res

GCheck(p) ==
    /\ pc[p] = "g_check"
    /\ connects' = [connects EXCEPT ![p] = @ + 1]
    /\ \E reachable \in BOOLEAN :
         LET res == Checked(gres[p], reachable)
             next == AfterCheck(reachable, scriptOnMnt)
         IN  CASE next = "done" ->
                    /\ gres' = [gres EXCEPT ![p] = res]
                    /\ Return(p, ExitStatus(res.success))
                    /\ UNCHANGED errors
               [] next = "g_remote" ->
                    /\ gres' = [gres EXCEPT ![p] = res]
                    /\ Goto(p, "g_remote")
                    /\ UNCHANGED errors
               [] OTHER ->
                    /\ gres' = [gres EXCEPT
                                  ![p] = [res EXCEPT
                                            !.error_message = ScriptPathUnknown]]
                    /\ errors' = [errors EXCEPT ![p] = Append(@, ScriptPathUnknown)]
                    /\ Return(p, ExitStatus(res.success))
    /\ UNCHANGED <<fixed, verified, machine, orchestrator, wres, calls, attempt, sleeps,
                   endpoint, stderr, channel, snap>>

\* What the powershell.exe child can write to stderr before it runs the tool
\* (the elevation check and the search for Python of the generated script).
ScriptErrors ==
    { <<"Administrator privileges required. Please run PowerShell as Administrator and try again.", "\n">>,
      <<" ", "Python 3 not found in PATH", "\n", "\n">>,
      <<"\n">> }

\* The stderr of the tool run on the control host: printer.error writes
\* each message there as a line that starts with the printer's cross mark.
ErrorMark == "(x) "

RECURSIVE Lines(_)
Lines(msgs) ==
    IF msgs = <<>> THEN <<>>
    ELSE <<ErrorMark>> \o Head(msgs) \o <<"\n">> \o Lines(Tail(msgs))

\* Variant: the exit status of the child is not looked at.
run_powershell_from_wsl_unchecked(how, out, err) ==
    CASE how \in {"exit0", "nonzero"} -> [success |-> TRUE, output |-> strip(out)]
      [] how = "timeout" -> [success |-> FALSE, output |-> PowerShellTimedOut]
      [] OTHER -> [success |-> FALSE,
                   output |-> PowerShellFailed("[Errno 2] No such file or directory: 'powershell.exe'")]

\* Variant: TimeoutExpired is taken as the child having ended well.
run_powershell_from_wsl_timeout_ok(how, out, err) ==
    CASE how \in {"exit0", "timeout"} -> [success |-> TRUE, output |-> strip(out)]
      [] how = "nonzero" -> [success |-> FALSE, output |-> strip(err)]
      [] OTHER -> [success |-> FALSE,
                   output |-> PowerShellFailed("[Errno 2] No such file or directory: 'powershell.exe'")]

\* run_powershell_from_wsl: (success, output/error_message) by how the child
\* ended: exit status 0, another exit status, TimeoutExpired, or any other
\* exception of subprocess.run.
run_powershell_from_wsl(how, out, err) ==
    CASE how = "exit0" -> [success |-> TRUE, output |-> strip(out)]
      [] how = "nonzero" -> [success |-> FALSE, output |-> strip(err)]
      [] how = "timeout" -> [success |-> FALSE, output |-> PowerShellTimedOut]
      [] OTHER -> [success |-> FALSE,
                   output |-> PowerShellFailed("[Errno 2] No such file or directory: 'powershell.exe'")]

\* "success, output = run_powershell_from_wsl(ps_script)" has returned:
\* "if not success: ... return result", else the polling loop.
AfterRemote(p, how, err) ==
    LET r == run_powershell_from_wsl(how, <<"Launching WSL Dev Kit on Windows...", "\n">>, err)
    IN  /\ channel' = how
        /\ stderr' = err
        /\ IF ~r.success
           THEN GFail(p, RemoteSetupFailed(r.output))
           ELSE /\ gres' = [gres EXCEPT ![p].windows_setup_completed = TRUE]
                /\ Goto(p, "g_poll")
                /\ UNCHANGED errors

\* run_powershell_from_wsl(ps_script) starts.  The child cannot be started
\* (subprocess.run raises), or its script fails before it runs the tool
\* (non-zero exit), or it runs the tool on the control host.
GRemote(p) ==
    /\ pc[p] = "g_remote"
    /\ pc["remote"] = "idle"
    /\ \/ /\ calls' = [calls EXCEPT ![p] = Append(@, Cmd("powershell.exe", "raise"))]
          /\ AfterRemote(p, "raise", <<>>)
          /\ UNCHANGED snap
       \/ \E text \in ScriptErrors :
            /\ calls' = [calls EXCEPT ![p] = Append(@, Cmd("powershell.exe", "script"))]
            /\ AfterRemote(p, "nonzero", text)
            /\ UNCHANGED snap
       \/ /\ calls' = [calls EXCEPT ![p] = Append(@, Cmd("powershell.exe", "tool"))]
          /\ pc' = [pc EXCEPT ![p] = "g_wait", !["remote"] = "main"]
          /\ snap' = [snap EXCEPT !["remote"] = <<rules, running, profile>>]
          /\ UNCHANGED <<gres, errors, exit, stderr, channel>>
    /\ UNCHANGED <<fixed, verified, machine, orchestrator, wres, attempt, sleeps,
                   connects, endpoint>>

\* The tool run on the control host has ended and subprocess.run returns:
\* the guest has its exit status and its stderr, and nothing else of that
\* process remains.
Reaped(f, init) == [f EXCEPT !["remote"] = init]

GRemoteReturns(p) ==
    /\ pc[p] = "g_wait"
    /\ pc["remote"] = "done"
    /\ LET how == IF exit["remote"] = 0 THEN "exit0" ELSE "nonzero"
           r == run_powershell_from_wsl(how, Lines(<<>>), Lines(errors["remote"]))
       IN  /\ channel' = how
           /\ stderr' = Lines(errors["remote"])
           /\ pc' = [pc EXCEPT ![p] = IF r.success THEN "g_poll" ELSE "done",
                               !["remote"] = "exited"]
           /\ exit' = [exit EXCEPT ![p] = IF r.success THEN @
                                          ELSE ExitStatus(gres[p].success),
                                   !["remote"] = -1]
           /\ gres' = [gres EXCEPT ![p] =
                         IF r.success
                         THEN [@ EXCEPT !.windows_setup_completed = TRUE]
                         ELSE [@ EXCEPT !.error_message =
                                           RemoteSetupFailed(r.output)]]
           /\ errors' = [errors EXCEPT ![p] =
                           IF r.success THEN @
                           ELSE Append(@, RemoteSetupFailed(r.output)),
                                       !["remote"] = <<>>]
    /\ orchestrator' = Reaped(orchestrator, "none")
    /\ wres' = Reaped(wres, WindowsSetupResult)
    /\ calls' = Reaped(calls, <<>>)
    /\ attempt' = Reaped(attempt, 0)
    /\ sleeps' = Reaped(sleeps, 0)
    /\ endpoint' = Reaped(endpoint, <<>>)
    /\ verified' = Reaped(verified, FALSE)
    /\ listening' = Reaped(listening, FALSE)
    /\ UNCHANGED <<given, machine, connects, snap>>

\* subprocess.TimeoutExpired after 30 s, the tool still running on the
\* control host.
GRemoteTimeout(p) ==
    /\ pc[p] = "g_wait"
    /\ pc["remote"] # "done"
    /\ AfterRemote(p, "timeout", <<>>)
    /\ UNCHANGED <<fixed, verified, machine, orchestrator, wres, calls, attempt, sleeps,
                   connects, endpoint, snap>>

\* Variant: time.sleep(2) after every failed attempt, the last included.
verify_connection_loop_sleep_always(att, reachable) ==
    IF reachable THEN "verified" ELSE "sleep"

\* Variant: the loop ending counts as verified.
verify_connection_loop_lenient(att, reachable) ==
    IF reachable THEN "verified"
    ELSE IF att < max_attempts - 1 THEN "sleep"
    ELSE "verified"

\* One iteration "for attempt in range(max_attempts)" of the verification
\* loop: "verified" is the break after a successful connection, "sleep" is
\* time.sleep(2) and the next iteration, "failed" is the loop ending with
\* connection_verified still false.
verify_connection_loop(att, reachable) ==
    IF reachable THEN "verified"
    ELSE IF att < max_attempts - 1 THEN "sleep"
    ELSE "failed"

GPoll(p) ==
    /\ pc[p] = "g_poll"
    /\ attempt[p] < max_attempts
    /\ connects' = [connects EXCEPT ![p] = @ + 1]
    /\ \E reachable \in BOOLEAN :
         LET v == verify_connection_loop(attempt[p], reachable)
         IN  /\ verified' = [verified EXCEPT ![p] = reachable]
             /\ attempt' = [attempt EXCEPT ![p] = IF v = "verified" THEN @ ELSE @ + 1]
             /\ sleeps' = [sleeps EXCEPT ![p] = IF v = "sleep" THEN @ + 1 ELSE @]
             /\ CASE v = "verified" ->
                       /\ gres' = [gres EXCEPT ![p].connection_verified = TRUE,
                                               ![p].success = TRUE]
                       /\ endpoint' = [endpoint EXCEPT
                                         ![p] = Endpoint(gres[p].windows_host_ip, port)]
                       /\ Return(p, ExitStatus(TRUE))
                       /\ UNCHANGED errors
                  [] v = "sleep" ->
                       /\ Goto(p, "g_poll")
                       /\ UNCHANGED <<gres, errors, endpoint>>
                  [] OTHER ->
                       /\ GFail(p, ConnectivityVerificationFailed)
                       /\ UNCHANGED endpoint
    /\ UNCHANGED <<fixed, machine, orchestrator, wres, calls, stderr, channel,
                   snap>>
(***************************************************************************)
(* main() with --cleanup, after kill_browser: on the control host with     *)
(* privilege, cleanup_portproxy for the adapter address when there is one; *)
(* "return 0" whatever happened.                                           *)
(***************************************************************************)
MainCleanup(p) ==
    /\ pc[p] = "unrelay"
    /\ IF is_admin(p)
       THEN \E ip \in Addrs \cup {NoAddr} :
              IF ip = NoAddr
              THEN UNCHANGED <<rules, calls>>
              ELSE \E del \in DelOutcomes(rules, ip, port) :
                     LET r == cleanup_portproxy(rules, is_admin(p), ip, port, del)
                     IN  /\ rules' = r.rules
                         /\ calls' = [calls EXCEPT ![p] = @ \o r.cmds]
       ELSE UNCHANGED <<rules, calls>>
    /\ Return(p, 0)
    /\ UNCHANGED <<fixed, verified, running, profile, orchestrator, wres, gres,
                   errors, attempt, sleeps, connects, endpoint, stderr, channel,
                   snap>>

(***************************************************************************)
(* KeyboardInterrupt raised in the invocation the user started, at any     *)
(* step of it.  The helpers catch "Exception", which KeyboardInterrupt is  *)
(* not, and main() has no try statement: the exception leaves main(),      *)
(* "sys.exit(main())" gets no return value, nothing is printed by the tool *)
(* and nothing done so far is undone.                                      *)
(***************************************************************************)
Interrupt(p) ==
    /\ pc[p] \notin {"idle", "done", "exited", "interrupted"}
    /\ pc' = [pc EXCEPT ![p] = "interrupted"]
    /\ UNCHANGED <<fixed, verified, machine, orchestrator, wres, gres, exit,
                   calls, errors, attempt, sleeps, connects, endpoint, stderr,
                   channel, snap>>

(***************************************************************************)
(* The user runs the tool again once an invocation is over: a fresh        *)
(* process on the machine as the earlier invocation left it.               *)
(***************************************************************************)
RunModes == {"setup", "cleanup"}

Restart ==
    /\ pc["main"] = "done"
    /\ pc["remote"] \in {"idle", "done", "exited"}
    /\ runs < MaxRuns
    /\ runs' = runs + 1
    /\ pc' = [p \in Procs |-> IF p = "main" THEN "main" ELSE "idle"]
    /\ orchestrator' = [p \in Procs |-> "none"]
    /\ wres' = [p \in Procs |-> WindowsSetupResult]
    /\ gres' = [p \in Procs |-> WSLSetupResult]
    /\ exit' = [p \in Procs |-> -1]
    /\ calls' = [p \in Procs |-> <<>>]
    /\ errors' = [p \in Procs |-> <<>>]
    /\ attempt' = [p \in Procs |-> 0]
    /\ sleeps' = [p \in Procs |-> 0]
    /\ connects' = [p \in Procs |-> 0]
    /\ endpoint' = [p \in Procs |-> <<>>]
    /\ stderr' = <<>>
    /\ channel' = "none"
    /\ snap' = [p \in Procs |-> <<rules, running, profile>>]
    /\ verified' = [p \in Procs |-> FALSE]
    /\ listening' = [p \in Procs |-> FALSE]
    /\ \E m \in RunModes :
         mode' = [p \in Procs |-> IF p = "main" THEN m ELSE "setup"]
    /\ UNCHANGED <<browser, port, machine, world, env, admin, installs,
                   retries, returned>>

(***************************************************************************)
(* setup_portproxy called on its own, MaxInstalls times in succession with *)
(* the same arguments (wres["main"].wsl_ip, port).                         *)
(***************************************************************************)
Install(p) ==
    /\ pc[p] = "relay"
    /\ installs < MaxInstalls
    /\ \E del \in DelOutcomes(rules, wres[p].wsl_ip, port), add \in AddOutcomes :
         LET r == setup_portproxy(rules, is_admin(p), wres[p].wsl_ip, port,
                                  del, add)
         IN  /\ rules' = r.rules
             /\ calls' = [calls EXCEPT ![p] = @ \o r.cmds]
             /\ errors' = [errors EXCEPT ![p] = @ \o r.msgs]
             /\ wres' = [wres EXCEPT ![p].portproxy_configured = r.ret]
             /\ returned' = r.ret
             /\ snap' = IF installs = 0
                        THEN [snap EXCEPT ![p] = <<r.rules, running, profile>>]
                        ELSE snap
    /\ installs' = installs + 1
    /\ UNCHANGED <<browser, port, runs, world, env, admin, running, profile,
                   pc, orchestrator, gres, exit, attempt, sleeps,
                   connects, endpoint, stderr, channel, verified, listening, mode,
                   retries>>

(***************************************************************************)
(* cleanup_portproxy called on its own, MaxInstalls times in succession    *)
(* with the same arguments (wres["main"].wsl_ip, port).                    *)
(***************************************************************************)
Remove(p) ==
    /\ pc[p] = "remove"
    /\ installs < MaxInstalls
    /\ \E del \in DelOutcomes(rules, wres[p].wsl_ip, port) :
         LET r == cleanup_portproxy(rules, is_admin(p), wres[p].wsl_ip, port, del)
         IN  /\ rules' = r.rules
             /\ calls' = [calls EXCEPT ![p] = @ \o r.cmds]
             /\ returned' = r.ret
             /\ snap' = IF installs = 0
                        THEN [snap EXCEPT ![p] = <<r.rules, running, profile>>]
                        ELSE snap
    /\ installs' = installs + 1
    /\ UNCHANGED <<browser, port, runs, world, env, admin, running, profile,
                   pc, orchestrator, wres, gres, exit, errors, attempt, sleeps,
                   connects, endpoint, stderr, channel, verified, listening, mode,
                   retries>>

(***************************************************************************)
(* verify_chrome_listening(port, max_retries = retries) called on its own, *)
(* one iteration per step; the probes made are logged.                     *)
(***************************************************************************)
Wait(p) ==
    /\ pc[p] = "wait"
    /\ \E probe \in Probes :
         LET v == verify_chrome_listening(attempt[p], probe, retries)
             probed == attempt[p] < retries
         IN  /\ calls' = [calls EXCEPT ![p] =
                            IF probed THEN Append(@, Cmd("connect_ex", probe))
                            ELSE @]
             /\ verified' = [verified EXCEPT ![p] = probed /\ probe = "valid"]
             /\ attempt' = [attempt EXCEPT
                              ![p] = IF probed /\ v # "true" THEN @ + 1 ELSE @]
             /\ sleeps' = [sleeps EXCEPT ![p] = IF v = "sleep" THEN @ + 1 ELSE @]
             /\ CASE v = "true" ->
                       returned' = TRUE /\ pc' = [pc EXCEPT ![p] = "returned"]
                  [] v = "false" ->
                       returned' = FALSE /\ pc' = [pc EXCEPT ![p] = "returned"]
                  [] v = "sleep" -> UNCHANGED <<returned, pc>>
                  [] OTHER ->
                       UNCHANGED returned /\ pc' = [pc EXCEPT ![p] = "raised"]
    /\ UNCHANGED <<browser, port, runs, machine, world, env, admin, orchestrator,
                   wres, gres, exit, errors, connects, endpoint, stderr, channel,
                   snap, listening, installs, mode, retries>>

(***************************************************************************)
(* find_browser(browser, env) called on its own.                           *)
(***************************************************************************)
Find(p) ==
    /\ pc[p] = "find"
    /\ returned' = find_browser(browser, env[p])
    /\ pc' = [pc EXCEPT ![p] = "returned"]
    /\ UNCHANGED <<browser, port, runs, machine, world, env, admin, orchestrator,
                   wres, gres, exit, calls, errors, attempt, sleeps, connects,
                   endpoint, stderr, channel, snap, verified, listening,
                   installs, mode, retries>>

(***************************************************************************)
(* detect_environment() called on its own: "env = detect_environment()",   *)
(* or the exception leaves the call.                                       *)
(***************************************************************************)
Detect(p) ==
    /\ pc[p] = "detect"
    /\ LET e == detect_environment(system, version)
       IN  IF e = "raise"
           THEN /\ pc' = [pc EXCEPT ![p] = "raised"]
                /\ UNCHANGED env
           ELSE /\ pc' = [pc EXCEPT ![p] = "returned"]
                /\ env' = [env EXCEPT ![p] = e]
    /\ UNCHANGED <<browser, port, runs, machine, world, admin, orchestrator,
                   wres, gres, exit, calls, errors, attempt, sleeps, connects,
                   endpoint, stderr, channel, snap, verified, listening,
                   installs, mode, retries, returned>>

(***************************************************************************)
(* Initial states: the command line, the machine and the guest as the tool *)
(* can find them, and the invocation "main" about to run.                  *)
(***************************************************************************)
CmdLines == {<<"chrome", 9222>>, <<"firefox", 9223>>}

\* A rule somebody installed earlier for the same listen port.
StaleRule(p) == Rule("10.0.0.5", p, "10.9.9.9", 80)

ResolvConfs ==
    { [readable |-> FALSE, lines |-> <<>>],
      [readable |-> TRUE, lines |-> <<>>],
      [readable |-> TRUE, lines |-> << <<"search", "lan">>, <<"nameserver">> >>],
      [readable |-> TRUE,
       lines |-> << <<"search", "lan">>, <<"nameserver", "192.168.1.1">> >>],
      [readable |-> TRUE,
       lines |-> << <<"nameservers", "10.0.0.5">>,
                    <<"nameserver", "192.168.1.1">> >>] }

Routes ==
    { [raises |-> TRUE, returncode |-> 0, stdout |-> <<>>],
      [raises |-> FALSE, returncode |-> 1, stdout |-> <<>>],
      [raises |-> FALSE, returncode |-> 0, stdout |-> <<>>],
      [raises |-> FALSE, returncode |-> 0,
       stdout |-> <<"default", "dev", "eth0">>],
      [raises |-> FALSE, returncode |-> 0,
       stdout |-> <<"default", "via", "10.0.0.5", "dev", "eth0">>] }

\* The guest network configurations the orchestration specification starts
\* from: one per way detect_wsl_host_ip can end.
GuestNets ==
    { <<[readable |-> FALSE, lines |-> <<>>],
        [raises |-> FALSE, returncode |-> 0,
         stdout |-> <<"default", "via", "10.0.0.5", "dev", "eth0">>]>>,
      <<[readable |-> TRUE, lines |-> << <<"search", "lan">>, <<"nameserver">> >>],
        [raises |-> FALSE, returncode |-> 0,
         stdout |-> <<"default", "via", "10.0.0.5", "dev", "eth0">>]>>,
      <<[readable |-> TRUE,
         lines |-> << <<"search", "lan">>, <<"nameserver", "192.168.1.1">> >>],
        [raises |-> TRUE, returncode |-> 0, stdout |-> <<>>]>>,
      <<[readable |-> TRUE, lines |-> <<>>],
        [raises |-> FALSE, returncode |-> 1, stdout |-> <<>>]>> }

NoGuestNet ==
    <<[readable |-> FALSE, lines |-> <<>>],
      [raises |-> TRUE, returncode |-> 0, stdout |-> <<>>]>>

\* The installs the orchestration specifications start from, for a context:
\* no browser, one at the first fixed path, one on the search path only.
Installs(e) ==
    { [files |-> {}, bins |-> {}],
      [files |-> {<<e, 1>>}, bins |-> {}],
      [files |-> {}, bins |-> {<<e, 1>>}] }

InitProcess(e0, label, ip) ==
    /\ runs = 1
    /\ pc = [p \in Procs |-> IF p = "main" THEN label ELSE "idle"]
    /\ env = [p \in Procs |-> IF p = "main" THEN e0 ELSE "windows"]
    /\ orchestrator = [p \in Procs |-> "none"]
    /\ wres = [p \in Procs |-> [WindowsSetupResult EXCEPT !.wsl_ip = ip]]
    /\ gres = [p \in Procs |-> WSLSetupResult]
    /\ exit = [p \in Procs |-> -1]
    /\ calls = [p \in Procs |-> <<>>]
    /\ errors = [p \in Procs |-> <<>>]
    /\ attempt = [p \in Procs |-> 0]
    /\ sleeps = [p \in Procs |-> 0]
    /\ connects = [p \in Procs |-> 0]
    /\ endpoint = [p \in Procs |-> <<>>]
    /\ stderr = <<>>
    /\ channel = "none"
    /\ snap = [p \in Procs |-> <<rules, running, profile>>]
    /\ verified = [p \in Procs |-> FALSE]
    /\ listening = [p \in Procs |-> FALSE]
    /\ installs = 0
    /\ returned = FALSE

Systems == {"Windows", "Linux", "Darwin", "FreeBSD", "Java", ""}

VersionTexts ==
    { <<>>,
      <<"Linux", " version ", "5.15.0-91-generic">>,
      <<"Linux", " version ", "4.4.0-19041-", "Microsoft">>,
      <<"Linux", " version ", "5.15.90.1-", "microsoft", "-standard-", "WSL", "2">>,
      <<"Linux", " version ", "5.10.0-", "wsl", "-custom">>,
      <<"Linux", " version ", "6.6.0 (", "MICROSOFT", " toolchain)">> }

Versions ==
    {[how |-> "ok", text |-> t] : t \in VersionTexts}
        \cup {[how |-> h, text |-> <<>>] : h \in ReadOutcomes \ {"ok"}}

\* A host on which detect_environment() returns e0.
HostSystem(e0) ==
    CASE e0 = "windows" -> "Windows"
      [] e0 \in {"wsl", "linux"} -> "Linux"
      [] e0 = "macos" -> "Darwin"
      [] OTHER -> "FreeBSD"

HostVersion(e0) ==
    CASE e0 = "wsl" ->
           [how |-> "ok",
            text |-> <<"Linux", " version ", "5.15.90.1-", "microsoft",
                       "-standard-", "WSL", "2">>]
      [] e0 = "linux" ->
           [how |-> "ok", text |-> <<"Linux", " version ", "5.15.0-91-generic">>]
      [] OTHER -> [how |-> "FileNotFoundError", text |-> <<>>]

\* The invocation "main" at position label, its context known to be e0.
InitInvocation(e0, label, ip) ==
    /\ system = HostSystem(e0)
    /\ version = HostVersion(e0)
    /\ InitProcess(e0, label, ip)

\* detect_environment() about to be called on any host; env is not set yet.
InitDetect ==
    /\ system \in Systems
    /\ version \in Versions
    /\ browser = "chrome"
    /\ port = 9222
    /\ mode = [p \in Procs |-> "setup"]
    /\ retries = max_retries
    /\ rules = {}
    /\ running = {}
    /\ profile = "absent"
    /\ netsh = [del |-> "any", add |-> "any"]
    /\ admin = [p \in Procs |-> p = "remote"]
    /\ files = {}
    /\ pathBins = {}
    /\ resolv = NoGuestNet[1]
    /\ route = NoGuestNet[2]
    /\ scriptOnMnt = FALSE
    /\ InitProcess("unset", "detect", NoAddr)

\* The machine before the first invocation: whether a stale rule, a stale
\* browser process and an old profile directory are there.
Machines == BOOLEAN \X BOOLEAN \X BOOLEAN

CleanMachine == {<<FALSE, FALSE, FALSE>>}

\* The command lines of main() modelled: the default setup, --cleanup and
\* --detect-only.  The tool run through powershell.exe is given neither flag.
Modes == {"setup", "cleanup", "detect_only"}

InitGiven(cmds, modes, envs, nets, machines) ==
    /\ \E c \in cmds : browser = c[1] /\ port = c[2]
    /\ mode \in {[p \in Procs |-> IF p = "main" THEN m ELSE "setup"] : m \in modes}
    /\ retries = max_retries
    /\ \E m \in machines :
         /\ rules = IF m[1] THEN {StaleRule(port)} ELSE {}
         /\ running = IF m[2] THEN {"stale"} ELSE {}
         /\ profile = IF m[3] THEN "present" ELSE "absent"
    /\ netsh = [del |-> "any", add |-> "any"]
    /\ \E e0 \in envs :
         /\ \E here \in Installs(e0) :
            \E there \in (IF e0 = "wsl" THEN Installs("windows") ELSE {here}) :
              /\ files = here.files \cup there.files
              /\ pathBins = here.bins \cup there.bins
         /\ admin \in {[p \in Procs |-> p = "remote" \/ a] :
                          a \in (IF e0 = "windows" THEN BOOLEAN ELSE {FALSE})}
         /\ \E net \in (IF e0 = "wsl" THEN nets ELSE {NoGuestNet}) :
              resolv = net[1] /\ route = net[2]
         /\ scriptOnMnt \in (IF e0 = "wsl" THEN BOOLEAN ELSE {FALSE})
         /\ InitInvocation(e0, "main", NoAddr)

Init == InitGiven(CmdLines, Modes, Envs, GuestNets, Machines)

\* The invocations followed to their end: one browser and port, any command
\* line and context, the guest with a resolver address or without any host
\* address.
LiveNets ==
    {net \in GuestNets : net[1].readable /\ (net[2].raises \/ net[2].returncode = 1)}

InitLive == InitGiven({<<"chrome", 9222>>}, Modes, Envs, LiveNets, Machines)

\* The invocations that are run again: one browser and port, set up or
\* cleaned up, on the control host or in the guest.
InitRuns ==
    InitGiven({<<"chrome", 9222>>}, RunModes, {"windows", "wsl"}, GuestNets,
              CleanMachine)

\* The guest alone, over every resolver configuration and default route.
InitGuest ==
    InitGiven({<<"chrome", 9222>>}, RunModes, {"wsl"}, ResolvConfs \X Routes,
              CleanMachine)

\* The rule sets netsh can hold: at most one rule per (listen address, port).
RelayRules ==
    {Rule(la, lp, Loopback, lp) : la \in Addrs, lp \in Ports}
        \cup {Rule(la, lp, "10.9.9.9", 80) : la \in Addrs, lp \in Ports}

RuleSets ==
    {rs \in SUBSET RelayRules :
        \A r1 \in rs, r2 \in rs :
            Matches(r1, r2.listenaddress, r2.listenport) => r1 = r2}

\* A helper about to be called on its own, at position label.
InitHelper(label) ==
    /\ \E c \in CmdLines : browser = c[1] /\ port = c[2]
    /\ mode = [p \in Procs |-> "setup"]
    /\ running = {}
    /\ profile = "absent"
    /\ files = {}
    /\ pathBins = {}
    /\ resolv = NoGuestNet[1]
    /\ route = NoGuestNet[2]
    /\ scriptOnMnt = FALSE
    /\ \E ip \in Addrs : InitInvocation("windows", label, ip)

InitRelay ==
    /\ rules \in RuleSets
    /\ netsh \in [del : {"status"} \cup Outcomes, add : Outcomes]
    /\ admin \in {[p \in Procs |-> p = "remote" \/ a] : a \in BOOLEAN}
    /\ retries = max_retries
    /\ InitHelper("relay")

\* cleanup_portproxy about to be called, netsh answering deterministically.
InitRemove ==
    /\ rules \in RuleSets
    /\ netsh \in [del : {"status"} \cup Outcomes, add : {"ok"}]
    /\ admin \in {[p \in Procs |-> p = "remote" \/ a] : a \in BOOLEAN}
    /\ retries = max_retries
    /\ InitHelper("remove")

\* verify_chrome_listening about to be called with max_retries = retries.
InitWait ==
    /\ rules = {}
    /\ netsh = [del |-> "any", add |-> "any"]
    /\ admin = [p \in Procs |-> TRUE]
    /\ retries \in 0..MaxRetries
    /\ InitHelper("wait")

\* find_browser about to be called: any browser, any context, any set of
\* the fixed install paths being files and of the binary names being on PATH.
InitFind ==
    /\ browser \in Browsers
    /\ port = 9222
    /\ mode = [p \in Procs |-> "detect_only"]
    /\ retries = max_retries
    /\ rules = {}
    /\ running = {}
    /\ profile = "absent"
    /\ netsh = [del |-> "any", add |-> "any"]
    /\ admin = [p \in Procs |-> p = "remote"]
    /\ resolv = NoGuestNet[1]
    /\ route = NoGuestNet[2]
    /\ scriptOnMnt = FALSE
    /\ \E e0 \in Envs :
         /\ files \in SUBSET {<<e0, i>> : i \in 1..NumDefaultPaths(browser, e0)}
         /\ pathBins \in SUBSET {<<e0, j>> : j \in 1..NumBrowserNames(browser)}
         /\ InitInvocation(e0, "find", NoAddr)

\* Two setup invocations for the same browser and port started on the
\* control host, both elevated, neither waiting for the other: nothing in
\* main() or WindowsOrchestrator.run takes a lock.
InitRace ==
    /\ browser = "chrome"
    /\ port = 9222
    /\ mode = [p \in Procs |-> "setup"]
    /\ retries = max_retries
    /\ rules = {}
    /\ running = {}
    /\ profile \in {"absent", "present"}
    /\ netsh = [del |-> "status", add |-> "ok"]
    /\ admin = [p \in Procs |-> TRUE]
    /\ files = {<<"windows", 1>>}
    /\ pathBins = {}
    /\ resolv = NoGuestNet[1]
    /\ route = NoGuestNet[2]
    /\ scriptOnMnt = FALSE
    /\ system = HostSystem("windows")
    /\ version = HostVersion("windows")
    /\ runs = 1
    /\ pc = [p \in Procs |-> "main"]
    /\ env = [p \in Procs |-> "windows"]
    /\ orchestrator = [p \in Procs |-> "none"]
    /\ wres = [p \in Procs |-> WindowsSetupResult]
    /\ gres = [p \in Procs |-> WSLSetupResult]
    /\ exit = [p \in Procs |-> -1]
    /\ calls = [p \in Procs |-> <<>>]
    /\ errors = [p \in Procs |-> <<>>]
    /\ attempt = [p \in Procs |-> 0]
    /\ sleeps = [p \in Procs |-> 0]
    /\ connects = [p \in Procs |-> 0]
    /\ endpoint = [p \in Procs |-> <<>>]
    /\ stderr = <<>>
    /\ channel = "none"
    /\ snap = [p \in Procs |-> <<rules, running, profile>>]
    /\ verified = [p \in Procs |-> FALSE]
    /\ listening = [p \in Procs |-> FALSE]
    /\ installs = 0
    /\ returned = FALSE

Step(p) ==
    \/ MainLocate(p)
    \/ WAdmin(p)
    \/ WAdapter(p)
    \/ WFind(p)
    \/ KillBrowser(p)
    \/ CleanupProfile(p)
    \/ LaunchBrowser(p)
    \/ WWait(p)
    \/ WRelay(p)
    \/ GDetect(p)
    \/ GCheck(p)
    \/ GRemote(p)
    \/ GRemoteReturns(p)
    \/ GRemoteTimeout(p)
    \/ GPoll(p)
    \/ MainCleanup(p)

Next == \E p \in Procs : Step(p)

\* The steps of a setup invocation on the control host.
RaceStep(p) ==
    \/ MainLocate(p)
    \/ WAdmin(p)
    \/ WAdapter(p)
    \/ WFind(p)
    \/ KillBrowser(p)
    \/ CleanupProfile(p)
    \/ LaunchBrowser(p)
    \/ WWait(p)
    \/ WRelay(p)

NextRace == \E p \in Procs : RaceStep(p)

NextRuns == Next \/ Restart

NextRelay == Install("main")

NextRemove == Remove("main")

NextWait == Wait("main")

NextInterrupt == Next \/ Interrupt("main")

NextFind == Find("main")

NextDetect == Detect("main")

\* One invocation of the tool, in any context.
Spec == Init /\ [][Next]_vars


\* One invocation of the tool in which every external call returns: each
\* process takes its next step as long as it has one.
SpecLive == InitLive /\ [][Next]_vars /\ \A p \in Procs : WF_vars(Step(p))

\* One invocation in the guest, over every guest network configuration.
SpecGuest == InitGuest /\ [][Next]_vars

\* Up to MaxRuns invocations, one after another.
SpecRuns == InitRuns /\ [][NextRuns]_vars

\* Relay installs on their own, netsh behaving deterministically.
SpecRelay == InitRelay /\ [][NextRelay]_vars

\* Relay removals on their own, netsh behaving deterministically.
SpecRemove == InitRemove /\ [][NextRemove]_vars

\* The liveness wait on its own, for every max_retries up to MaxRetries.
SpecWait == InitWait /\ [][NextWait]_vars

\* One invocation that the user may interrupt at any step.
SpecInterrupt == InitRuns /\ [][NextInterrupt]_vars

\* Two setup invocations on the control host at the same time.
SpecRace == InitRace /\ [][NextRace]_vars

\* The browser lookup on its own, over every install state.
SpecFind == InitFind /\ [][NextFind]_vars

\* The environment detection on its own, over every host.
SpecDetect == InitDetect /\ [][NextDetect]_vars

(***************************************************************************)
(* Properties.  Observers over the logs first.                             *)
(***************************************************************************)
Issued(p, c) == \E i \in 1..Len(calls[p]) : calls[p][i].cmd = c

IssuedWith(p, c, o) == \E i \in 1..Len(calls[p]) : calls[p][i] = Cmd(c, o)

RelayTouched(p) == Issued(p, "netsh delete") \/ Issued(p, "netsh add")

Ended(p) == pc[p] = "done"

\* C1: in a control-side run the relay install is reached, and a netsh
\* delete or add issued, only after a probe of the liveness wait of that run
\* got valid metadata; a run whose browser was spawned and whose port never
\* got verified ends, after max_retries probes, with "Browser did not start
\* listening" and without any netsh delete or add.
C1_RelayOnlyAfterListening ==
    \A p \in Procs :
        /\ (orchestrator[p] = "windows"
               /\ (pc[p] = "w_relay" \/ RelayTouched(p)))
              => verified[p] /\ wres[p].chrome_listening
        /\ (orchestrator[p] = "windows" /\ Ended(p)
               /\ IssuedWith(p, "Popen", "ok") /\ ~verified[p])
              => /\ wres[p].error_message = BrowserNotListening
                 /\ ~wres[p].success
                 /\ attempt[p] = max_retries
                 /\ ~RelayTouched(p)

C1_Witness ==
    \E p \in Procs :
        /\ orchestrator[p] = "windows" /\ Ended(p)
        /\ IssuedWith(p, "Popen", "ok") /\ ~verified[p]
        /\ attempt[p] = max_retries /\ sleeps[p] = max_retries - 1
        /\ errors[p] = <<BrowserNotListening>>

\* C2: a control-side run without elevated privilege issues no external
\* command (no kill, no profile removal, no spawn, no netsh delete or add),
\* leaves rules, processes and profile as they were when it started, and
\* ends with success = false and "Administrator privileges required".
C2_NoPrivilegeNoEffect ==
    \A p \in Procs :
        (orchestrator[p] = "windows" /\ ~admin[p])
          => /\ pc[p] \in {"w_admin", "done"}
             /\ calls[p] = <<>>
             /\ machine = snap[p]
             /\ Ended(p) => /\ ~wres[p].success
                             /\ wres[p].error_message = PermissionDenied
                             /\ errors[p] = <<PermissionDenied>>
                             /\ exit[p] = 1

C2_Witness ==
    \E p \in Procs :
        /\ orchestrator[p] = "windows" /\ ~admin[p] /\ Ended(p)
        /\ wres[p].error_message = PermissionDenied
        /\ rules # {} /\ running # {} /\ profile = "present"

\* C3: a setup invocation through main() in the control-native context
\* without elevated privilege reports "Administrator privileges required" as
\* its first failure, whatever the browser-install state.
C3_PermissionDeniedFirst ==
    \A p \in Procs :
        (mode[p] = "setup" /\ env[p] = "windows" /\ ~admin[p] /\ Ended(p))
          => errors[p] # <<>> /\ errors[p][1] = PermissionDenied

\* C4: a control-side run with privilege, an adapter address A, the browser
\* spawned, the port P verified within the attempt bound and the netsh add
\* succeeding ends with success, chrome_listening and portproxy_configured
\* all true and reports exactly the endpoint (A, P).
C4_SuccessEndpoint ==
    \A p \in Procs :
        (/\ orchestrator[p] = "windows" /\ Ended(p) /\ is_admin(p)
         /\ wres[p].wsl_ip \in Addrs
         /\ IssuedWith(p, "Popen", "ok")
         /\ verified[p] /\ attempt[p] < max_retries
         /\ IssuedWith(p, "netsh add", "ok"))
          => /\ wres[p].success
             /\ wres[p].chrome_listening
             /\ wres[p].portproxy_configured
             /\ wres[p].error_message = NoMessage
             /\ endpoint[p] = <<wres[p].wsl_ip, port>>
             /\ exit[p] = 0

C4_Witness ==
    /\ env["main"] = "windows" /\ Ended("main") /\ wres["main"].success
    /\ attempt["main"] = 2 /\ sleeps["main"] = 2
    /\ IssuedWith("main", "netsh add", "ok")
    /\ endpoint["main"] = <<"10.0.0.5", 9222>>

\* The guest run took the fast path: it ended after the one connection of
\* "Checking existing connection...", and that connection was made.
FastPath(p) ==
    /\ orchestrator[p] = "wsl" /\ Ended(p)
    /\ connects[p] = 1 /\ gres[p].connection_verified

\* C5: a guest run whose initial connection succeeds reports success at
\* once: it starts no powershell.exe and no tool on the control host, issues
\* no command, polls and sleeps not at all, and rules, processes and profile
\* are as they were when it started; so in a repeated run as in a first one.
C5_FastPathTouchesNothing ==
    \A p \in Procs :
        FastPath(p)
          => /\ gres[p].success /\ exit[p] = 0
             /\ calls[p] = <<>>
             /\ pc["remote"] = "idle" /\ channel = "none"
             /\ attempt[p] = 0 /\ sleeps[p] = 0
             /\ machine = snap[p]

C5_Witness ==
    /\ runs = 2 /\ FastPath("main") /\ gres["main"].success
    /\ \E ip \in Addrs : Rule(ip, port, Loopback, port) \in rules
    /\ running # {}

\* C6: a guest run that took the fast path returns success = true and
\* windows_setup_completed = false.
C6_FastPathSetupSkipped ==
    \A p \in Procs :
        FastPath(p)
          => gres[p].success /\ ~gres[p].windows_setup_completed

\* C7: a guest run with the host address found, the initial connection
\* failing, the remote invocation exiting 0 and every connection of the
\* polling loop failing ends, after max_attempts polls, with success = false,
\* connection_verified = false and "Connection verification failed".
C7_PollingExhausted ==
    \A p \in Procs :
        (/\ orchestrator[p] = "wsl" /\ Ended(p)
         /\ gres[p].windows_host_ip # NoAddr
         /\ channel = "exit0" /\ ~verified[p])
          => /\ ~gres[p].success
             /\ ~gres[p].connection_verified
             /\ gres[p].error_message = ConnectivityVerificationFailed
             /\ gres[p].windows_setup_completed
             /\ attempt[p] = max_attempts
             /\ connects[p] = max_attempts + 1
             /\ sleeps[p] = max_attempts - 1
             /\ exit[p] = 1

C7_Witness ==
    /\ orchestrator["main"] = "wsl" /\ Ended("main")
    /\ gres["main"].windows_host_ip = "192.168.1.1" /\ port = 9222
    /\ channel = "exit0" /\ ~verified["main"]
    /\ connects["main"] = max_attempts + 1
    /\ errors["main"] = <<ConnectivityVerificationFailed>>

\* What "Windows setup failed: ..." carries for each way the remote invocation
\* fails: the stripped stderr of the child, or the text for the timeout or
\* for the child that could not be started.
RemoteErrorText ==
    CASE channel = "nonzero" -> strip(stderr)
      [] channel = "timeout" -> <<"PowerShell command timed out">>
      [] OTHER -> <<"Failed to run PowerShell: ",
                    "[Errno 2] No such file or directory: 'powershell.exe'">>

\* C8: a remote invocation that exits non-zero, times out or cannot be
\* started ends the guest run with success = false and "Windows setup
\* failed: " followed by the remote error text; windows_setup_completed stays
\* false and no connection is polled after it.
C8_RemoteSetupFailed ==
    channel \in {"nonzero", "timeout", "raise"}
      => /\ Ended("main") /\ exit["main"] = 1
         /\ ~gres["main"].success
         /\ gres["main"].error_message = <<"Windows setup failed: ">> \o RemoteErrorText
         /\ errors["main"] = <<gres["main"].error_message>>
         /\ ~gres["main"].windows_setup_completed
         /\ ~gres["main"].connection_verified
         /\ connects["main"] = 1 /\ attempt["main"] = 0 /\ sleeps["main"] = 0

C8_Witness ==
    /\ channel = "nonzero" /\ Ended("main")
    /\ gres["main"].error_message =
         <<"Windows setup failed: ", ErrorMark, "Could not detect WSL adapter IP">>
    /\ connects["main"] = 1

\* The two discovery methods on their own: the first nameserver entry of a
\* readable /etc/resolv.conf, and the gateway of the default route.
ResolverAddress ==
    IF resolv.readable THEN FirstNameserver(resolv.lines) ELSE NoAddr

RouteAddress ==
    IF route.raises THEN NoAddr ELSE DefaultRoute(route)

\* C9: when the resolver configuration yields no address (no nameserver
\* entry, or the file cannot be read) the guest run takes the address of the
\* default route, and it ends with "Could not detect Windows host IP from
\* WSL" only if neither method yields an address.
C9_FallbackToDefaultRoute ==
    \A p \in Procs :
        (orchestrator[p] = "wsl" /\ pc[p] # "g_detect")
          => /\ ResolverAddress = NoAddr
                  => gres[p].windows_host_ip = RouteAddress
             /\ gres[p].error_message = HostAddressUnknown
                  => ResolverAddress = NoAddr /\ RouteAddress = NoAddr

\* C10: with privilege and netsh answering deterministically, the rule set
\* after a second and any later setup_portproxy call with the same listen
\* address and port is the rule set after the first, whatever the rule set
\* before.
C10_InstallIdempotent ==
    (is_admin("main") /\ installs >= 2) => rules = snap["main"][1]

C10_Witness ==
    /\ is_admin("main") /\ installs = 2
    /\ netsh = [del |-> "status", add |-> "ok"]
    /\ Cardinality(rules) >= 2
    /\ Rule(wres["main"].wsl_ip, port, Loopback, port) \in rules
    /\ Len(calls["main"]) = 4

\* C11: a setup_portproxy call without elevated privilege returns false,
\* issues neither the netsh delete nor the netsh add, and leaves the rule
\* set as it was.
C11_InstallNeedsPrivilege ==
    [][(~is_admin("main") /\ installs' = installs + 1)
         => /\ rules' = rules
            /\ calls' = calls
            /\ ~wres'["main"].portproxy_configured]_vars

C11_Witness ==
    /\ ~is_admin("main") /\ installs = 2
    /\ Cardinality(rules) = 2 /\ calls["main"] = <<>>
    /\ ~wres["main"].portproxy_configured
    /\ errors["main"] = <<RelayNeedsPrivilege, RelayNeedsPrivilege>>

\* Which netsh command a logged command is.
IsDelete(c) == c.cmd = "netsh delete"

IsAdd(c) == c.cmd = "netsh add"

\* C12: with privilege, every netsh add of setup_portproxy comes right after
\* the netsh delete of the same call; a delete that exits, with whatever
\* status, is followed by the add; and the call returns true exactly when
\* its add exited 0 (false when the add fails or raises, or is not reached).
C12_DeleteThenAdd ==
    (is_admin("main") /\ installs >= 1)
      => LET cs == calls["main"]
         IN  /\ cs # <<>> /\ IsDelete(cs[1])
             /\ \A i \in 1..Len(cs) :
                  /\ IsAdd(cs[i])
                       => i > 1 /\ IsDelete(cs[i - 1])
                                /\ cs[i - 1].out \in {"ok", "fail"}
                  /\ (IsDelete(cs[i]) /\ cs[i].out \in {"ok", "fail"})
                       => i < Len(cs) /\ IsAdd(cs[i + 1])
                  /\ (IsDelete(cs[i]) /\ cs[i].out = "raise")
                       => (i = Len(cs) \/ IsDelete(cs[i + 1]))
             /\ wres["main"].portproxy_configured
                  <=> cs[Len(cs)] = Cmd("netsh add", "ok")

C12_Witness ==
    /\ is_admin("main") /\ installs = 1
    /\ calls["main"] = <<Cmd("netsh delete", "fail"), Cmd("netsh add", "ok")>>
    /\ wres["main"].portproxy_configured
    /\ Rule(wres["main"].wsl_ip, port, Loopback, port) \in rules

\* C13: over any sequence of runs on a machine that started without rules,
\* every rule in the rule set connects to the loopback address, on the port
\* it listens on; the listen address is the adapter address of a run.
C13_RulesConnectLoopback ==
    \A r \in rules :
        /\ r.connectaddress = Loopback
        /\ r.connectport = r.listenport
        /\ r.listenport = port
        /\ r.listenaddress \in Addrs

C13_Witness ==
    /\ runs = 2
    /\ rules = {Rule(ip, port, Loopback, port) : ip \in Addrs}

\* Whether netsh holds a rule for the listen address and port of the calls.
RuleExists ==
    \E r \in rules : Matches(r, wres["main"].wsl_ip, port)

C15_ZeroAttempts ==
    retries = 0
      => /\ pc["main"] \in {"wait", "returned"}
         /\ calls["main"] = <<>>
         /\ attempt["main"] = 0 /\ sleeps["main"] = 0
         /\ ~returned /\ ~verified["main"]

C15_Witness ==
    /\ retries = 0 /\ pc["main"] = "returned" /\ ~returned
    /\ calls["main"] = <<>> /\ sleeps["main"] = 0

\* The probes of the call so far that found the port open and got valid
\* metadata from it.
ValidProbes ==
    {i \in 1..Len(calls["main"]) : calls["main"][i].out = "valid"}

\* C16: verify_chrome_listening never raises; it returns true exactly when a
\* probe within the bound found the port open and got valid metadata, that
\* probe being its last; when no probe does, a port open at every attempt
\* included, it returns false after max_retries probes, having slept between
\* them.
C16_TrueIffValidProbe ==
    /\ pc["main"] # "raised"
    /\ Len(calls["main"]) <= retries
    /\ pc["main"] = "returned"
         => /\ returned <=> ValidProbes # {}
            /\ returned => ValidProbes = {Len(calls["main"])}
            /\ ~returned => /\ Len(calls["main"]) = retries
                            /\ sleeps["main"] = IF retries = 0 THEN 0
                                                ELSE retries - 1
            /\ sleeps["main"] <= Len(calls["main"])

C16_Witness ==
    /\ pc["main"] = "returned" /\ ~returned /\ retries = MaxRetries
    /\ \A i \in 1..Len(calls["main"]) : calls["main"][i].out = "open"
    /\ Len(calls["main"]) = MaxRetries

\* C17: what shutil.rmtree leaves of the profile directory is nothing or
\* all of it, never a part; and when a browser is spawned after the reset,
\* nothing of the earlier profile is left.
C17_ProfileNeverPartial ==
    \A p \in Procs :
        \A i \in 1..Len(calls[p]) :
            calls[p][i].cmd = "rmtree"
              => /\ calls[p][i].out \in {"absent", "present"}
                 /\ IssuedWith(p, "Popen", "ok") => calls[p][i].out = "absent"

\* C18: a control-side run that reached kill_browser goes on to spawn the
\* browser whatever the kill and the profile cleanup did, and when it fails
\* its reason is that of a later step; an invocation with --cleanup returns
\* 0 and reports no failure whatever the kill and the relay removal did.
C18_BestEffortNeverFails ==
    \A p \in Procs :
        /\ (orchestrator[p] = "windows" /\ Issued(p, "taskkill")
              /\ pc[p] \notin {"clean", "launch"})
             => /\ Issued(p, "Popen")
                /\ (Ended(p) /\ ~wres[p].success)
                     => wres[p].error_message
                          \in {LaunchFailed, BrowserNotListening, RelayInstallFailed}
        /\ (orchestrator[p] = "cleanup" /\ Ended(p))
             => exit[p] = 0 /\ errors[p] = <<>>

C18_Witness ==
    \E p \in Procs :
        /\ orchestrator[p] = "windows" /\ Ended(p) /\ wres[p].success
        /\ IssuedWith(p, "taskkill", "raise")
        /\ IssuedWith(p, "rmtree", "partial")

\* C19: a control-side run that fails ends with one of the reasons
\* PermissionDenied, AdapterNotFound, BrowserNotFound, BrowserNotListening,
\* RelayInstallFailed, and with no other.
C19_ControlFailureKinds ==
    \A p \in Procs :
        (orchestrator[p] = "windows" /\ Ended(p) /\ ~wres[p].success)
          => /\ wres[p].error_message
                  \in {PermissionDenied, AdapterNotFound, BrowserNotFound(browser),
                       BrowserNotListening, RelayInstallFailed}
             /\ errors[p] # <<>>
             /\ errors[p][Len(errors[p])] = wres[p].error_message

\* C20: a guest run that fails ends with one of the reasons
\* HostAddressUnknown, RemoteSetupFailed, ConnectivityVerificationFailed, and
\* with no other; and a guest run that found the host address and whose
\* first connection failed ends only after powershell.exe was run.
C20_GuestFailureKinds ==
    \A p \in Procs :
        (orchestrator[p] = "wsl" /\ Ended(p))
          => /\ ~gres[p].success
                  => \/ gres[p].error_message
                          \in {HostAddressUnknown, ConnectivityVerificationFailed}
                     \/ /\ gres[p].error_message # <<>>
                        /\ Head(gres[p].error_message) = "Windows setup failed: "
             /\ (gres[p].windows_host_ip # NoAddr /\ ~FastPath(p))
                  => Issued(p, "powershell.exe")


\* C21: when main() returns after WindowsOrchestrator.run or
\* WSLOrchestrator.run, its return value is 0 exactly when the result has
\* success = true, and 1 when it has not.
C21_ExitStatusIsSuccess ==
    \A p \in Procs :
        (orchestrator[p] \in {"windows", "wsl"} /\ Ended(p))
          => /\ exit[p] \in {0, 1}
             /\ exit[p] = 0 <=>
                  (IF orchestrator[p] = "windows" THEN wres[p].success
                                                  ELSE gres[p].success)

C21_Witness ==
    /\ orchestrator["main"] = "wsl" /\ Ended("main")
    /\ ~gres["main"].success /\ exit["main"] = 1
    /\ gres["main"].error_message = ConnectivityVerificationFailed
    /\ channel = "exit0"


\* C22: an interruption that arrives during an invocation is caught in
\* main(): no invocation ends by a KeyboardInterrupt leaving main().
C22_InterruptCaught ==
    \A p \in Procs : pc[p] # "interrupted"


\* The steps of WindowsOrchestrator.run in the order of its code, and the
\* external commands of a control-side run in the order of their steps.
ControlSteps ==
    <<"w_admin", "w_adapter", "w_find", "kill", "clean", "launch", "w_wait",
      "w_relay">>

StepRank(l) == CHOOSE i \in 1..Len(ControlSteps) : ControlSteps[i] = l

CmdRank(c) ==
    CASE c = "taskkill" -> 1
      [] c = "rmtree" -> 2
      [] c = "Popen" -> 3
      [] c = "netsh delete" -> 4
      [] c = "netsh add" -> 5
      [] OTHER -> 0

LastCall(cs) == IF cs = <<>> THEN Cmd("none", "none") ELSE cs[Len(cs)]

\* The gate of step l is passed in the state reached by the step.
GatePassed(p, l) ==
    CASE l = "w_admin" -> is_admin(p)
      [] l = "w_adapter" -> wres[p].wsl_ip # NoAddr
      [] l = "w_find" -> find_browser(browser, env[p]) # NoPath
      [] l = "launch" -> LastCall(calls[p]) = Cmd("Popen", "ok")
      [] l = "w_wait" -> verified[p] /\ wres[p].chrome_listening
      [] l = "w_relay" -> LastCall(calls[p]) = Cmd("netsh add", "ok")
      [] OTHER -> TRUE

\* What holds of the commands a control-side run has issued so far.
ControlCallsInOrder(p) ==
    /\ \A i \in 1..Len(calls[p]), j \in 1..Len(calls[p]) :
         i < j => CmdRank(calls[p][i].cmd) < CmdRank(calls[p][j].cmd)
    /\ Issued(p, "taskkill")
         => is_admin(p) /\ wres[p].wsl_ip # NoAddr
              /\ find_browser(browser, env[p]) # NoPath
    /\ Issued(p, "rmtree") => Issued(p, "taskkill")
    /\ Issued(p, "Popen")
         => /\ Issued(p, "taskkill")
            /\ pc[p] \notin {"kill", "clean"}
            /\ snap[p][3] # "absent" => Issued(p, "rmtree")
    /\ RelayTouched(p)
         => IssuedWith(p, "Popen", "ok") /\ wres[p].chrome_listening
    /\ Issued(p, "netsh add")
         => \E o \in {"ok", "fail"} : IssuedWith(p, "netsh delete", o)

\* C23: a control-side run takes its steps in the order privilege check,
\* adapter discovery, browser location, termination, profile reset, spawn,
\* liveness wait, relay install, each begun only when the gate of the one
\* before it passed; a step whose gate fails ends the run as a failure with
\* no command but its own issued; an ended run does nothing more; and the
\* commands issued are in that order, a spawn after a termination and a
\* profile reset of the same run.
C23_ControlStepsGated ==
    [][\A p \in Procs :
         orchestrator'[p] = "windows"
           => /\ ControlCallsInOrder(p)'
              /\ pc[p] = "main" => pc'[p] = "w_admin" /\ calls'[p] = <<>>
              /\ pc[p] = "done" => pc'[p] = "done" /\ calls'[p] = calls[p]
              /\ (pc[p] \notin {"main", "done"} /\ pc'[p] # "done"
                    /\ <<pc[p], calls[p], attempt[p]>>
                         # <<pc'[p], calls'[p], attempt'[p]>>)
                   => \/ /\ pc'[p] = pc[p] /\ pc[p] = "w_wait"
                         /\ ~verified'[p] /\ calls'[p] = calls[p]
                      \/ /\ StepRank(pc'[p]) = StepRank(pc[p]) + 1
                         /\ \A l \in {pc[p]} : GatePassed(p, l)'
              /\ (pc[p] \notin {"main", "done"} /\ pc'[p] = "done")
                   => /\ wres'[p].success
                        <=> (pc[p] = "w_relay" /\ GatePassed(p, "w_relay")')
                      /\ ~wres'[p].success
                           => /\ \A l \in {pc[p]} : ~GatePassed(p, l)'
                              /\ pc[p] \notin {"kill", "clean"}
                              /\ \A i \in 1..Len(calls'[p]) :
                                   i > Len(calls[p])
                                     => CmdRank(calls'[p][i].cmd)
                                           >= CmdRank(IF pc[p] = "launch"
                                                      THEN "Popen"
                                                      ELSE "netsh delete")
                              /\ pc[p] \notin {"launch", "w_relay"}
                                   => calls'[p] = calls[p]]_vars

C23_Witness ==
    \E p \in Procs :
        /\ orchestrator[p] = "windows" /\ Ended(p) /\ wres[p].success
        /\ Len(calls[p]) = 5
        /\ \A i \in 1..5 : CmdRank(calls[p][i].cmd) = i
        /\ attempt[p] = 2


\* C24: in a guest run a connection to the debug port is made only once
\* the host address is known; powershell.exe is started only after the one
\* initial connection, which failed, and only once per run; and a connection
\* of the polling loop is made only after powershell.exe was started and
\* run_powershell_from_wsl reported success.
C24_GuestStepsGated ==
    [][\A p \in Procs :
         orchestrator'[p] = "wsl"
           => /\ connects'[p] > connects[p]
                   => /\ gres[p].windows_host_ip # NoAddr
                      /\ pc[p] \in {"g_check", "g_poll"}
                      /\ pc[p] = "g_check" <=> connects[p] = 0
              /\ calls'[p] # calls[p]
                   => /\ pc[p] = "g_remote" /\ calls[p] = <<>>
                      /\ Len(calls'[p]) = 1
                      /\ calls'[p][1].cmd = "powershell.exe"
                      /\ connects[p] = 1
                      /\ ~gres[p].connection_verified /\ ~gres[p].success
              /\ (pc'[p] = "g_poll" \/ connects'[p] > 1)
                   => /\ Issued(p, "powershell.exe")'
                      /\ channel' = "exit0"
                      /\ gres'[p].windows_setup_completed]_vars

C24_Witness ==
    /\ orchestrator["main"] = "wsl" /\ Ended("main") /\ gres["main"].success
    /\ calls["main"] = <<Cmd("powershell.exe", "tool")>>
    /\ connects["main"] = 3 /\ sleeps["main"] = 1


\* C25: the step that ends a control-side run with "Browser did not start
\* listening" or "Failed to configure portproxy" ends no process and leaves
\* the profile directory as it is; the failed wait issues no command and
\* changes no rule, the failed relay install issues its netsh commands only
\* and changes the rule set by what its delete removed at most; the browser
\* the run spawned is still running when the run has ended.
C25_AbortRollsNothingBack ==
    [][\A p \in Procs :
         (/\ orchestrator[p] = "windows" /\ pc[p] \in {"w_wait", "w_relay"}
          /\ pc'[p] = "done" /\ ~wres'[p].success)
           => /\ wres'[p].error_message
                   = (IF pc[p] = "w_wait" THEN BrowserNotListening
                                           ELSE RelayInstallFailed)
              /\ running' = running /\ p \in running'
              /\ profile' = profile /\ profile' # "absent"
              /\ pc[p] = "w_wait" => rules' = rules /\ calls'[p] = calls[p]
              /\ pc[p] = "w_relay"
                   => /\ rules' \in {rules,
                                     NetshDelete(rules, wres[p].wsl_ip, port)}
                      /\ \A i \in 1..Len(calls'[p]) :
                           i > Len(calls[p])
                             => calls'[p][i].cmd \in {"netsh delete", "netsh add"}]_vars

C25_Witness ==
    \E p \in Procs :
        /\ orchestrator[p] = "windows" /\ Ended(p)
        /\ wres[p].error_message = RelayInstallFailed
        /\ p \in running /\ IssuedWith(p, "rmtree", "absent")
        /\ profile = "present"
        /\ snap[p][1] = {StaleRule(port)} /\ rules = {}


\* C26: after a control-side run that succeeded, whatever runs came before
\* it, the rule set holds one rule for the port and no other: the one that
\* listens on the adapter address of this run.
C26_OneRulePerPort ==
    \A p \in Procs :
        (orchestrator[p] = "windows" /\ Ended(p) /\ wres[p].success)
          => {r \in rules : r.listenport = port}
                = {Rule(wres[p].wsl_ip, port, Loopback, port)}


\* The fixed install paths of the table that are files in context e, and
\* the known binary names that are on the search path there.
FixedHits(b, e) == {i \in 1..NumDefaultPaths(b, e) : <<e, i>> \in files}

PathHits(b, e) == {j \in 1..NumBrowserNames(b) : <<e, j>> \in pathBins}

\* C27: find_browser returns the fixed install path that is a file and has
\* no file before it in the table, whatever is on the search path; when no
\* fixed path is a file it returns the known binary name found on the search
\* path that has none before it in the list; when there is neither it
\* returns None.
C27_FirstFixedThenPath ==
    \A p \in Procs :
        pc[p] = "returned"
          => LET fixedHits == FixedHits(browser, env[p])
                 pathHits == PathHits(browser, env[p])
             IN  /\ fixedHits # {}
                      => /\ returned # NoPath
                         /\ returned[1] = "default_paths"
                         /\ returned[3] \in fixedHits
                         /\ \A k \in fixedHits : returned[3] <= k
                 /\ (fixedHits = {} /\ pathHits # {})
                      => /\ returned # NoPath
                         /\ returned[1] = "which"
                         /\ returned[3] \in pathHits
                         /\ \A k \in pathHits : returned[3] <= k
                 /\ (fixedHits = {} /\ pathHits = {}) => returned = NoPath

C27_Witness ==
    /\ pc["main"] = "returned"
    /\ returned = <<"default_paths", "linux", 2>>
    /\ FixedHits(browser, "linux") = {2, 4}
    /\ PathHits(browser, "linux") = {1, 3}

\* C28: detect_environment returns a context for every system name and
\* every outcome of reading /proc/version, and no exception leaves it; on
\* Linux the context is "wsl" when the text read has a marker and "linux"
\* when it has none or the file is not there or cannot be read; a system
\* that is not Windows, Linux or Darwin gives "unknown".
C28_DetectTotal ==
    /\ pc["main"] # "raised"
    /\ pc["main"] = "returned"
         => /\ env["main"] \in Envs
            /\ system = "Linux"
                 => env["main"]
                      = (IF version.how = "ok" /\ HasMarker(version.text)
                         THEN "wsl" ELSE "linux")
            /\ system \notin {"Windows", "Linux", "Darwin"}
                 => env["main"] = "unknown"


\* C29: a setup invocation runs WindowsOrchestrator only in the context
\* "windows" and WSLOrchestrator only in the context "wsl", and in each of
\* the two contexts it is that orchestrator that ends the invocation: in
\* the guest whatever find_browser finds there.
C29_OrchestratorDecides ==
    \A p \in Procs :
        /\ orchestrator[p] = "windows" => env[p] = "windows"
        /\ orchestrator[p] = "wsl" => env[p] = "wsl"
        /\ (mode[p] = "setup" /\ Ended(p) /\ env[p] \in {"windows", "wsl"})
             => orchestrator[p] = env[p]


\* The other of the two invocations.
Other(p) == CHOOSE q \in Procs : q # p

\* C30: two setup invocations on the control host run unexcluded.  An
\* invocation that reports success had its own browser spawned and its
\* port verified; when no browser process was running as it reported, or
\* the browser it spawned is not running after it, the other invocation
\* issued a taskkill that ended it; when the profile directory is gone, the
\* other's rmtree removed it.  The witness is such a run: an invocation
\* reports success = true, exit status 0, at a moment when the other's
\* taskkill has ended its browser and no browser process is running.
C30_OnlyTheOtherRunHits ==
    \A p \in Procs :
        (orchestrator[p] = "windows" /\ Ended(p) /\ wres[p].success)
          => /\ verified[p] /\ IssuedWith(p, "Popen", "ok")
             /\ (~listening[p] \/ p \notin running)
                  => IssuedWith(Other(p), "taskkill", "ok")
             /\ profile = "absent" => IssuedWith(Other(p), "rmtree", "absent")

C30_Witness ==
    \E p \in Procs :
        /\ Ended(p) /\ wres[p].success /\ exit[p] = 0
        /\ ~listening[p] /\ running = {}
        /\ Rule(wres[p].wsl_ip, port, Loopback, port) \in rules
        /\ IssuedWith(Other(p), "taskkill", "ok")


\* The milestones of a WindowsSetupResult are nested.
MilestonesNested(res) ==
    /\ res.portproxy_configured => res.chrome_listening
    /\ res.success
         => res.chrome_listening /\ res.portproxy_configured
              /\ res.wsl_ip # NoAddr

\* C31: in every state of a control-side run portproxy_configured implies
\* chrome_listening, and success implies chrome_listening,
\* portproxy_configured and an adapter address; and no step of the run sets
\* a milestone that is true back to false or takes the adapter address away.
C31_MilestonesMonotone ==
    [][\A p \in Procs :
         orchestrator'[p] = "windows"
           => /\ MilestonesNested(wres'[p])
              /\ orchestrator[p] = "windows"
                   => /\ wres[p].chrome_listening => wres'[p].chrome_listening
                      /\ wres[p].portproxy_configured
                           => wres'[p].portproxy_configured
                      /\ wres[p].success => wres'[p].success
                      /\ wres[p].wsl_ip # NoAddr
                           => wres'[p].wsl_ip = wres[p].wsl_ip]_vars

C31_Witness ==
    \E p \in Procs :
        /\ orchestrator[p] = "windows" /\ Ended(p)
        /\ wres[p].chrome_listening /\ ~wres[p].portproxy_configured
        /\ ~wres[p].success /\ wres[p].wsl_ip \in Addrs
        /\ IssuedWith(p, "netsh add", "fail")


\* C32: in every state of a guest run success holds exactly when
\* connection_verified holds, and only with a host address; and when a run
\* of either orchestrator has ended, success is false exactly when
\* error_message is not empty.
C32_SuccessIffVerified ==
    \A p \in Procs :
        /\ orchestrator[p] = "wsl"
             => /\ gres[p].success <=> gres[p].connection_verified
                /\ gres[p].success => gres[p].windows_host_ip # NoAddr
        /\ (orchestrator[p] = "wsl" /\ Ended(p))
             => (~gres[p].success <=> gres[p].error_message # NoMessage)
        /\ (orchestrator[p] = "windows" /\ Ended(p))
             => (~wres[p].success <=> wres[p].error_message # NoMessage)

C32_Witness ==
    /\ orchestrator["main"] = "wsl" /\ Ended("main")
    /\ gres["main"].success /\ gres["main"].connection_verified
    /\ gres["main"].windows_host_ip = "10.0.0.5"
    /\ gres["main"].error_message = NoMessage
    /\ connects["main"] = 2


\* C33: the guest's polling after the remote setup connects at most
\* max_attempts times and stops at the first connection that succeeds, which
\* sets connection_verified and success whatever its number; it sleeps only
\* between two attempts: once after each failed attempt that is not the
\* last, so at most max_attempts - 1 times, and never after a success.
C33_BoundedPolling ==
    \A p \in Procs : orchestrator[p] = "wsl" =>
        /\ connects[p] <= max_attempts + 1
        /\ sleeps[p] <= max_attempts - 1
        /\ pc[p] = "g_poll" => /\ sleeps[p] = connects[p] - 1
                               /\ sleeps[p] = attempt[p]
                               /\ ~gres[p].success
        /\ (Ended(p) /\ connects[p] >= 2) =>
              /\ sleeps[p] = connects[p] - 2
              /\ gres[p].success <=> verified[p]
              /\ gres[p].success => gres[p].connection_verified /\ exit[p] = 0
              /\ ~gres[p].success => connects[p] = max_attempts + 1

C33_Witness ==
    /\ orchestrator["main"] = "wsl" /\ Ended("main")
    /\ gres["main"].success /\ exit["main"] = 0
    /\ connects["main"] = max_attempts + 1
    /\ sleeps["main"] = max_attempts - 1


\* C34: when the 30 s timeout of the PowerShell channel expires before the
\* run on the control host has ended, the guest run ends at once with
\* RemoteSetupFailed and never polls, whatever the control host does
\* afterwards: the guest's failure says nothing about the relay being
\* installed or not.
C34_TimeoutEndsGuest ==
    \A p \in Procs : (orchestrator[p] = "wsl" /\ channel = "timeout") =>
        /\ Ended(p)
        /\ exit[p] = 1
        /\ ~gres[p].success
        /\ ~gres[p].windows_setup_completed
        /\ ~gres[p].connection_verified
        /\ gres[p].error_message = RemoteSetupFailed(PowerShellTimedOut)
        /\ connects[p] = 1 /\ attempt[p] = 0 /\ sleeps[p] = 0

C34_Witness ==
    /\ orchestrator["main"] = "wsl" /\ Ended("main")
    /\ channel = "timeout"
    /\ gres["main"].error_message = RemoteSetupFailed(PowerShellTimedOut)
    /\ pc["remote"] = "done" /\ exit["remote"] = 0
    /\ wres["remote"].success
    /\ \E r \in rules : Matches(r, wres["remote"].wsl_ip, port)


\* C35: the install is not atomic: with privilege, a setup_portproxy call
\* whose netsh delete exits 0 and whose netsh add does not succeed returns
\* false and leaves no rule for its listen address and port, the rule that
\* was there before included; the other rules are left as they were.
C35_InstallNotAtomic ==
    [][(/\ is_admin("main")
        /\ installs' = installs + 1
        /\ Len(calls'["main"]) = Len(calls["main"]) + 2
        /\ calls'["main"][Len(calls'["main"]) - 1] = Cmd("netsh delete", "ok")
        /\ calls'["main"][Len(calls'["main"])].out # "ok")
         => /\ ~returned'
            /\ ~wres'["main"].portproxy_configured
            /\ ~\E r \in rules' : Matches(r, wres["main"].wsl_ip, port)
            /\ rules' = NetshDelete(rules, wres["main"].wsl_ip, port)]_vars

C35_Witness ==
    /\ is_admin("main") /\ installs = 1
    /\ netsh = [del |-> "status", add |-> "fail"]
    /\ calls["main"] = <<Cmd("netsh delete", "ok"), Cmd("netsh add", "fail")>>
    /\ ~returned
    /\ ~\E r \in rules : Matches(r, wres["main"].wsl_ip, port)
    /\ Cardinality(rules) = 1


\* C36: a control-side run that ends with "Could not detect WSL adapter IP"
\* or with "Could not find <browser> installation" has issued no external
\* command (no kill, no profile removal, no spawn, no netsh delete or add)
\* and leaves processes, profile and rules as they were when it started.
C36_EarlyAbortTouchesNothing ==
    \A p \in Procs :
        (/\ orchestrator[p] = "windows" /\ Ended(p)
         /\ wres[p].error_message \in {AdapterNotFound, BrowserNotFound(browser)})
          => /\ calls[p] = <<>>
             /\ machine = snap[p]
             /\ ~wres[p].success /\ ~wres[p].chrome_listening
             /\ ~wres[p].portproxy_configured
             /\ exit[p] = 1

C36_Witness ==
    /\ orchestrator["main"] = "windows" /\ Ended("main")
    /\ admin["main"]
    /\ wres["main"].error_message = AdapterNotFound
    /\ calls["main"] = <<>>
    /\ running # {} /\ rules # {} /\ profile # "absent"


\* The number of remote invocations a process has started.
RECURSIVE RemoteInvocations(_)
RemoteInvocations(cs) ==
    IF cs = <<>> THEN 0
    ELSE (IF Head(cs).cmd = "powershell.exe" THEN 1 ELSE 0)
             + RemoteInvocations(Tail(cs))

\* C37: when every external call returns, every run ends: the invocation
\* ends, and so does the run it started on the control host.  No loop goes
\* on without bound: a control-side run probes at most max_retries times, a
\* guest run starts at most one remote invocation and polls at most
\* max_attempts times after its initial check.
C37_RunsTerminate ==
    /\ [](\A p \in Procs :
            /\ orchestrator[p] = "windows" => attempt[p] <= max_retries
            /\ orchestrator[p] = "wsl"
                 => /\ attempt[p] <= max_attempts
                    /\ connects[p] <= max_attempts + 1
                    /\ RemoteInvocations(calls[p]) <= 1)
    /\ <>Ended("main")
    /\ (pc["remote"] # "idle") ~> (pc["remote"] \in {"done", "exited"})

C37_Witness ==
    /\ orchestrator["main"] = "wsl" /\ Ended("main")
    /\ RemoteInvocations(calls["main"]) = 1
    /\ channel = "timeout"
    /\ orchestrator["remote"] = "windows" /\ Ended("remote")
    /\ attempt["remote"] = max_retries
    /\ wres["remote"].error_message = BrowserNotListening


\* C38: on native Linux and on macOS a setup invocation takes the simple
\* launch: it probes nothing, connects to nothing and issues no netsh
\* delete or add; it ends with exit status 0 exactly when the spawn
\* succeeded, and with 1 only when no browser was found or the spawn failed.
C38_SimpleLaunch ==
    \A p \in Procs :
        (env[p] \in {"linux", "macos"} /\ mode[p] = "setup" /\ pc[p] # "idle")
          => /\ orchestrator[p] \in {"none", "simple"}
             /\ ~RelayTouched(p)
             /\ rules = snap[p][1]
             /\ attempt[p] = 0 /\ connects[p] = 0 /\ ~verified[p]
             /\ Ended(p)
                  => /\ exit[p] \in {0, 1}
                     /\ exit[p] = 0 <=> IssuedWith(p, "Popen", "ok")
                     /\ exit[p] = 1 <=> \/ find_browser(browser, env[p]) = NoPath
                                        \/ IssuedWith(p, "Popen", "raise")

C38_Witness ==
    /\ env["main"] = "macos" /\ mode["main"] = "setup"
    /\ orchestrator["main"] = "simple" /\ Ended("main")
    /\ exit["main"] = 0
    /\ IssuedWith("main", "Popen", "ok")
    /\ "main" \in running
    /\ rules = {StaleRule(port)}

====
